---- MODULE Spec2Model ----
(***************************************************************************)
(* cascade-cards: the card stack engine (HoverEngine, core package) and    *)
(* the stack controller (HoverKitProvider, react package).                 *)
(*                                                                         *)
(* Card ids are the numbers n of the generated strings "hoverkit-card-n".  *)
(* A JavaScript Map iterates in insertion order; every id is inserted once *)
(* and ids grow, so the iteration order of the engine's Map is ascending   *)
(* id order.                                                               *)
(***************************************************************************)
EXTENDS Integers, Sequences, FiniteSets, TLC

\* ---------------------------------------------------------------- bounds
MaxCards == 3          \* ids the engine may generate in one run
MaxTime == 1           \* values Date.now() may take
MaxCap == 2            \* largest configured behavior.maxOpenCards
MaxPending == 1        \* content resolutions in flight at once
MaxCtlCards == 2       \* ids the engine may generate in one run under the provider
NumSources == 2        \* length of config.sources

Terms == {"t1", "t2"}
NoParent == 0          \* parentId undefined
Null == <<>>           \* content null

Ids == 1..MaxCards

VARIABLES
  cards,               \* HoverEngine.cards: id -> CardState
  detached,            \* CardState objects deleted from the Map that a pending resolution still holds
  cardIdCounter,       \* HoverEngine.cardIdCounter
  now,                 \* Date.now()
  pending,             \* suspended openCard / followLink calls: the card object held, the term,
                       \* the source awaited and what the earlier sources answered
  maxOpenCards,        \* config.behavior.maxOpenCards
  linkFollowInNewCard, \* config.behavior.linkFollowInNewCard
  events,              \* what the last step emitted, queried and returned, in order
  lastOp,              \* the call or continuation the last step ran
  closedLevel,         \* the level each card had that is no longer in the Map
  ui,                  \* HoverKitProvider: React state, refs, pointer engine, timers
  pe,                  \* PointerEngine on its own: fields, pending callbacks, listeners
  tm,                  \* TermMatcher: configuration, terms, aliases, the last scan
  hv                   \* hover triggers: the pointer, the dwell timers of the engine and of HoverTerm

vars == <<cards, detached, cardIdCounter, now, pending, maxOpenCards,
          linkFollowInNewCard, events, lastOp, closedLevel, ui, pe, tm, hv>>

\* ------------------------------------------------------------ helpers
RECURSIVE SortedIds(_)
SortedIds(S) ==
  IF S = {} THEN <<>>
  ELSE LET m == CHOOSE x \in S : \A y \in S : x <= y
       IN <<m>> \o SortedIds(S \ {m})

\* Array.from(this.cards.values()) as the sequence of ids in Map order
MapValues(cs) == SortedIds(DOMAIN cs)

Range(s) == {s[i] : i \in 1..Len(s)}

Restrict(f, S) == [x \in S |-> f[x]]

\* trace entries of one step
EvOpen(c, id) == [type |-> "cardOpen", id |-> id, isLoading |-> c.isLoading,
                  content |-> c.content, term |-> c.term, level |-> c.level]
EvClose(id) == [type |-> "cardClose", id |-> id, isLoading |-> FALSE,
                content |-> Null, term |-> "", level |-> 0]
EvQuery(src, term) == [type |-> "query", id |-> src, isLoading |-> FALSE,
                       content |-> Null, term |-> term, level |-> 0]
EvReturn(id) == [type |-> "return", id |-> id, isLoading |-> FALSE,
                 content |-> Null, term |-> "", level |-> 0]

\* the positions of the entries of one type
EventsOf(evs, type) == {i \in 1..Len(evs) : evs[i].type = type}

\* lastOp of a step
Op(op, target, parentId, opened, outcome, slot) ==
  [op |-> op, target |-> target, parentId |-> parentId, opened |-> opened,
   outcome |-> outcome, slot |-> slot]

\* ------------------------------------------------------- HoverEngine
\* closeCard works on the pair (Map, events emitted so far)
RECURSIVE closeCard(_, _), closeChildren(_, _)

closeCardNoChildren(st, cardId) ==
  IF cardId \notin DOMAIN st.cards THEN st
  ELSE [cards |-> Restrict(st.cards, DOMAIN st.cards \ {cardId}),
        emitted |-> Append(st.emitted, EvClose(cardId))]

\* closeCard without the early return for an id that is not in the Map
closeCardEmitsAlways(st, cardId) ==
  IF cardId \notin DOMAIN st.cards
  THEN [st EXCEPT !.emitted = Append(@, EvClose(cardId))]
  ELSE LET childCards == SelectSeq(MapValues(st.cards),
                                   LAMBDA c : st.cards[c].parentId = cardId)
           afterChildren == closeChildren(st, childCards)
       IN [cards |-> Restrict(afterChildren.cards, DOMAIN afterChildren.cards \ {cardId}),
           emitted |-> Append(afterChildren.emitted, EvClose(cardId))]

closeCard(st, cardId) ==
  IF cardId \notin DOMAIN st.cards THEN st
  ELSE LET childCards == SelectSeq(MapValues(st.cards),
                                   LAMBDA c : st.cards[c].parentId = cardId)
           afterChildren == closeChildren(st, childCards)
       IN [cards |-> Restrict(afterChildren.cards, DOMAIN afterChildren.cards \ {cardId}),
           emitted |-> Append(afterChildren.emitted, EvClose(cardId))]

\* childCards.forEach(child => this.closeCard(child.id))
closeChildren(st, childCards) ==
  IF childCards = <<>> THEN st
  ELSE closeChildren(closeCard(st, Head(childCards)), Tail(childCards))

\* the while loop of openCard that collects ancestorIds
RECURSIVE ancestorWalk(_, _, _)
ancestorWalk(cs, current, acc) ==
  IF current = NoParent THEN acc
  ELSE ancestorWalk(cs,
                    IF current \in DOMAIN cs THEN cs[current].parentId ELSE NoParent,
                    acc \cup {current})

ancestorIdsNone(cs, parentId) == {}

ancestorIdsOf(cs, parentId) == ancestorWalk(cs, parentId, {})

\* openCards: the cards that are pinned or loading, in Map order
openCardsOf(cs) ==
  SelectSeq(MapValues(cs), LAMBDA c : cs[c].isPinned \/ cs[c].isLoading)

\* candidates.sort((a, b) => a.openedAt - b.openedAt)[0] ?? null ; the sort is stable
pickNewest(cs, candidates) ==
  IF candidates = <<>> THEN NoParent
  ELSE LET hi == CHOOSE i \in 1..Len(candidates) :
                   \A j \in 1..Len(candidates) :
                     \/ cs[candidates[i]].openedAt > cs[candidates[j]].openedAt
                     \/ cs[candidates[i]].openedAt = cs[candidates[j]].openedAt /\ i >= j
       IN candidates[hi]

pickToClose(cs, candidates) ==
  IF candidates = <<>> THEN NoParent
  ELSE LET lo == CHOOSE i \in 1..Len(candidates) :
                   \A j \in 1..Len(candidates) :
                     \/ cs[candidates[i]].openedAt < cs[candidates[j]].openedAt
                     \/ cs[candidates[i]].openedAt = cs[candidates[j]].openedAt /\ i <= j
       IN candidates[lo]

\* the eviction block at the head of openCard
evict(cs, parentId, cap) ==
  LET openCards == openCardsOf(cs)
      st0 == [cards |-> cs, emitted |-> <<>>]
  IN IF Len(openCards) >= cap
     THEN LET ancestorIds == ancestorIdsOf(cs, parentId)
              candidates == SelectSeq(openCards, LAMBDA c : c \notin ancestorIds)
              toClose == pickToClose(cs, candidates)
          IN IF toClose # NoParent THEN closeCard(st0, toClose) ELSE st0
     ELSE st0

\* a level that ignores the level of the parent
levelFlat(cs, parentId) == IF parentId # NoParent THEN 1 ELSE 0

\* parentId ? (this.cards.get(parentId)?.level || 0) + 1 : 0
levelFor(cs, parentId) ==
  IF parentId # NoParent
  THEN (IF parentId \in DOMAIN cs THEN cs[parentId].level ELSE 0) + 1
  ELSE 0

newCard(term, parentId, level, openedAt) ==
  [term |-> term, content |-> Null, isPinned |-> TRUE, isLoading |-> TRUE,
   parentId |-> parentId, level |-> level, openedAt |-> openedAt]

\* the objects removed from the Map that a suspended call still references
keepDetached(before, after, det, pend) ==
  LET held == {pend[i].card : i \in 1..Len(pend)}
      gone == (DOMAIN before \ DOMAIN after) \cap held
      old == DOMAIN det \cap held
  IN [id \in gone \cup old |-> IF id \in gone THEN before[id] ELSE det[id]]

\* the levels of the cards that left the Map, kept for the properties
remember(before, after, old) ==
  LET gone == DOMAIN before \ DOMAIN after
  IN [id \in DOMAIN old \cup gone |-> IF id \in gone THEN before[id].level ELSE old[id]]

\* the synchronous part of openCard: eviction, insert, first emit, first query; the
\* call is taken while fewer than idCap ids have been generated and fewer than
\* pendingCap resolutions are in flight
openCardWithin(op, term, target, parentId, idCap, pendingCap) ==
  LET ev == evict(cards, parentId, maxOpenCards)
      cardId == cardIdCounter + 1
      card == newCard(term, parentId, levelFor(ev.cards, parentId), now)
      pend == Append(pending, [card |-> cardId, term |-> term, idx |-> 1,
                               kind |-> "openCard", outcomes |-> <<>>])
  IN /\ cardIdCounter < idCap
     /\ Len(pending) < pendingCap
     /\ cardIdCounter' = cardId
     /\ cards' = [id \in DOMAIN ev.cards \cup {cardId} |->
                    IF id = cardId THEN card ELSE ev.cards[id]]
     /\ detached' = keepDetached(cards, ev.cards, detached, pend)
     /\ closedLevel' = remember(cards, ev.cards, closedLevel)
     /\ pending' = pend
     /\ events' = ev.emitted \o <<EvOpen(card, cardId), EvQuery(1, term)>>
     /\ lastOp' = Op(op, target, parentId, cardId, "", 0)
     /\ UNCHANGED <<now, maxOpenCards, linkFollowInNewCard>>

openCardSync(op, term, target, parentId) ==
  openCardWithin(op, term, target, parentId, MaxCards, MaxPending)

\* a parentId argument is the id of a card that was opened at some time, or absent
OpenCard(term, parentId) ==
  /\ parentId \in 0..cardIdCounter
  /\ openCardSync("openCard", term, 0, parentId)

CloseCard(cardId) ==
  LET st == closeCard([cards |-> cards, emitted |-> <<>>], cardId)
  IN /\ cards' = st.cards
     /\ detached' = keepDetached(cards, st.cards, detached, pending)
     /\ closedLevel' = remember(cards, st.cards, closedLevel)
     /\ events' = st.emitted
     /\ lastOp' = Op("closeCard", cardId, NoParent, 0, "", 0)
     /\ UNCHANGED <<cardIdCounter, now, pending, maxOpenCards, linkFollowInNewCard>>

\* ids.forEach(id => engine.closeCard(id)): the calls of one task, in order
CloseCards(ids) ==
  LET st == closeChildren([cards |-> cards, emitted |-> <<>>], ids)
  IN /\ cards' = st.cards
     /\ detached' = keepDetached(cards, st.cards, detached, pending)
     /\ closedLevel' = remember(cards, st.cards, closedLevel)
     /\ events' = st.emitted
     /\ lastOp' = Op("closeCards", 0, NoParent, 0, "", 0)
     /\ UNCHANGED <<cardIdCounter, now, pending, maxOpenCards, linkFollowInNewCard>>

\* the object a suspended call holds: still in the Map, or detached from it
objectOf(cardId) == IF cardId \in DOMAIN cards THEN cards[cardId] ELSE detached[cardId]

\* in-place followLink that rebuilds the card as openCard would, as a root card
replaceAsRoot(card, linkTerm) == newCard(linkTerm, NoParent, 0, card.openedAt)

\* parentCard.term = linkTerm; parentCard.content = null; parentCard.isLoading = true
replaceInPlace(card, linkTerm) ==
  [card EXCEPT !.term = linkTerm, !.content = Null, !.isLoading = TRUE]

followLinkWithin(linkTerm, fromCardId, pendingCap) ==
  /\ fromCardId \in 1..cardIdCounter
  /\ IF fromCardId \notin DOMAIN cards
     THEN \* parentCard undefined: return null
          /\ events' = <<EvReturn(0)>>
          /\ lastOp' = Op("followLink", fromCardId, NoParent, 0, "", 0)
          /\ UNCHANGED <<cards, detached, cardIdCounter, now, pending,
                         maxOpenCards, linkFollowInNewCard, closedLevel>>
     ELSE IF linkFollowInNewCard
          THEN openCardSync("followLink", linkTerm, fromCardId, fromCardId)
          ELSE \* replace the content of the card in place
               LET parentCard == replaceInPlace(cards[fromCardId], linkTerm)
               IN /\ Len(pending) < pendingCap
                  /\ cards' = [cards EXCEPT ![fromCardId] = parentCard]
                  /\ pending' = Append(pending, [card |-> fromCardId, term |-> linkTerm,
                                                 idx |-> 1, kind |-> "followLink",
                                                 outcomes |-> <<>>])
                  /\ events' = <<EvOpen(parentCard, fromCardId), EvQuery(1, linkTerm)>>
                  /\ lastOp' = Op("followLink", fromCardId, NoParent, 0, "", 0)
                  /\ UNCHANGED <<detached, cardIdCounter, now, maxOpenCards,
                                 linkFollowInNewCard, closedLevel>>

FollowLink(linkTerm, fromCardId) == followLinkWithin(linkTerm, fromCardId, MaxPending)

PinCard(term) ==
  LET found == SelectSeq(MapValues(cards), LAMBDA c : cards[c].term = term)
  IN IF found = <<>>
     THEN openCardSync("pinCard", term, 0, NoParent)
     ELSE LET card == cards[Head(found)]
          IN /\ cards' = [cards EXCEPT ![Head(found)].isPinned = TRUE]
             /\ events' = IF ~card.isPinned
                          THEN <<[type |-> "cardPin", id |-> Head(found), isLoading |-> FALSE,
                                  content |-> Null, term |-> "", level |-> 0]>>
                          ELSE <<>>
             /\ lastOp' = Op("pinCard", Head(found), NoParent, 0, "", 0)
             /\ UNCHANGED <<detached, cardIdCounter, now, pending, maxOpenCards,
                            linkFollowInNewCard, closedLevel>>

\* ---- PointerEngine after construction: no element registered, no listener, the
\* pointer outside the viewport (x = y = -1), nothing pending
Listeners == {1, 2}

PtrInit ==
  [attached |-> FALSE, stopped |-> FALSE,
   inside |-> FALSE, hits |-> <<>>, overZone |-> "none",
   frameRequest |-> 0, frames |-> {}, frameSkipCounter |-> 0, touchTimers |-> 0,
   cards |-> {}, triggers |-> {}, listeners |-> {}, topCardId |-> 0,
   reported |-> [l \in Listeners |-> ""],
   calls |-> <<>>, checked |-> FALSE, step |-> "init", arg |-> 0, wasPending |-> FALSE]

\* ---- TermMatcher after construction with the configuration given: no term, no
\* alias, nothing scanned
TmInit(caseSensitive, strategy) ==
  [caseSensitive |-> caseSensitive, strategy |-> strategy,
   terms |-> <<>>, aliases |-> <<>>,
   registered |-> <<>>, adds |-> 0, scans |-> 0,
   text |-> <<>>, matches |-> <<>>, step |-> "init"]

\* the hover triggers of the page after construction: the pointer over none of them,
\* HoverEngine.dwellTimers empty, every HoverTerm's timerRef null, no timer pending
HvInit ==
  [over |-> 0, dwellTimers |-> <<>>, timerRef |-> <<>>, timers |-> {}, nextTimer |-> 1,
   hovers |-> 0, early |-> {}, opened |-> {}, step |-> "init", stale |-> FALSE]

\* ---- HoverKitProvider after mount: no cards, no timers, the pointer outside the
\* viewport; subscribe() has handed the pointer engine's lastPointer object to React;
\* closeOnEscape and closeOnClickOutside are config.behavior as parsed from the
\* behavior prop, true when the prop does not give them
UiInit ==
  [cards |-> <<>>, cardsNext |-> <<>>,
   cardAnimations |-> <<>>, cardAnimationsNext |-> <<>>,
   dirty |-> FALSE,
   at |-> -1, overZone |-> "none", fresh |-> FALSE,
   cardsRef |-> <<>>, cardElements |-> {},
   closeTimerRef |-> FALSE, closingAnimationTimerRef |-> FALSE,
   graceActive |-> FALSE, pointerOverStackRef |-> FALSE, hasCascadedRef |-> FALSE,
   timers |-> {}, mounted |-> TRUE,
   closeOnEscape |-> TRUE, closeOnClickOutside |-> TRUE,
   step |-> "init", armed |-> "", calm |-> FALSE]

\* ---- resolveContent: the loop over config.sources, one source per step
Outcomes == {"content", "null", "reject"}

RemoveAt(s, i) == SubSeq(s, 1, i - 1) \o SubSeq(s, i + 1, Len(s))

\* what source src resolves term to when it answers
contentOf(src, term) == <<src, term>>

unhandled(outcome) == outcome

\* try { await source.resolve(term) } catch { continue }: a rejection leaves the loop
\* body with no content, as a null answer does
handled(outcome) == IF outcome = "reject" THEN "null" ELSE outcome

\* the source awaited by pending[i] gave no content, and more sources follow
ResolveNext(i, outcome) ==
  /\ i \in 1..Len(pending)
  /\ outcome \in Outcomes
  /\ handled(outcome) = "null"
  /\ pending[i].idx < NumSources
  /\ pending' = [pending EXCEPT ![i].idx = @ + 1,
                                ![i].outcomes = Append(@, outcome)]
  /\ events' = <<EvQuery(pending[i].idx + 1, pending[i].term)>>
  /\ lastOp' = Op("resolveNext", pending[i].card, NoParent, 0, outcome, i)
  /\ UNCHANGED <<cards, detached, cardIdCounter, now, maxOpenCards, linkFollowInNewCard,
                 closedLevel>>

resultIgnored(idx, term, outcome) == Null

\* the value resolveContent returns once the awaited source idx has answered
resultOf(idx, term, outcome) ==
  IF outcome = "content" THEN contentOf(idx, term) ELSE Null

stillLoading(card, content) == [card EXCEPT !.content = content]

loadedOnlyWithContent(card, content) ==
  IF content = Null THEN card ELSE [card EXCEPT !.content = content, !.isLoading = FALSE]

\* card.content = content; card.isLoading = false
loaded(card, content) == [card EXCEPT !.content = content, !.isLoading = FALSE]

\* the catch block of openCard and followLink: card.isLoading = false
failed(card) == [card EXCEPT !.isLoading = FALSE]

\* resolveContent returns and the suspended openCard / followLink call runs to its end
ResolveDone(i, outcome) ==
  /\ i \in 1..Len(pending)
  /\ outcome \in Outcomes
  /\ handled(outcome) # "null" \/ pending[i].idx >= NumSources
  /\ LET p == pending[i]
         card == IF handled(outcome) = "reject"
                 THEN failed(objectOf(p.card))
                 ELSE loaded(objectOf(p.card), resultOf(p.idx, p.term, handled(outcome)))
         pend == RemoveAt(pending, i)
     IN /\ pending' = pend
        /\ cards' = IF p.card \in DOMAIN cards
                    THEN [cards EXCEPT ![p.card] = card] ELSE cards
        /\ detached' = IF p.card \in DOMAIN cards
                       THEN keepDetached(cards, cards, detached, pend)
                       ELSE keepDetached(cards, cards,
                                         [detached EXCEPT ![p.card] = card], pend)
        /\ events' = <<EvOpen(card, p.card), EvReturn(p.card)>>
        /\ lastOp' = Op(IF p.kind = "openCard" THEN "openCardDone" ELSE "followLinkDone",
                        p.card, NoParent, 0, outcome, i)
  /\ UNCHANGED <<cardIdCounter, now, maxOpenCards, linkFollowInNewCard, closedLevel>>

\* Date.now() advances
Tick ==
  /\ now < MaxTime
  /\ now' = now + 1
  /\ events' = <<>>
  /\ lastOp' = Op("tick", 0, NoParent, 0, "", 0)
  /\ UNCHANGED <<cards, detached, cardIdCounter, pending, maxOpenCards, linkFollowInNewCard,
                 closedLevel>>

\* the engine after construction, for any valid configuration
InitEngine ==
  /\ cards = <<>>
  /\ detached = <<>>
  /\ cardIdCounter = 0
  /\ now = 0
  /\ pending = <<>>
  /\ maxOpenCards \in 1..MaxCap
  /\ linkFollowInNewCard \in BOOLEAN
  /\ events = <<>>
  /\ lastOp = Op("init", 0, NoParent, 0, "", 0)
  /\ closedLevel = <<>>

\* the engine, the provider and its pointer engine after construction
Init ==
  /\ InitEngine
  /\ ui = UiInit
  /\ pe = PtrInit
  /\ tm = TmInit(FALSE, "word-boundary")
  /\ hv = HvInit

\* the engine driven directly through its public calls
Next ==
  \/ \E term \in Terms, parentId \in 0..MaxCards :
       OpenCard(term, parentId) /\ UNCHANGED <<ui, pe, tm, hv>>
  \/ \E cardId \in Ids : CloseCard(cardId) /\ UNCHANGED <<ui, pe, tm, hv>>
  \/ \E term \in Terms, fromCardId \in Ids :
       FollowLink(term, fromCardId) /\ UNCHANGED <<ui, pe, tm, hv>>
  \/ \E term \in Terms : PinCard(term) /\ UNCHANGED <<ui, pe, tm, hv>>
  \/ \E i \in 1..MaxPending, outcome \in Outcomes :
       ResolveNext(i, outcome) /\ UNCHANGED <<ui, pe, tm, hv>>
  \/ \E i \in 1..MaxPending, outcome \in Outcomes :
       ResolveDone(i, outcome) /\ UNCHANGED <<ui, pe, tm, hv>>
  \/ Tick /\ UNCHANGED <<ui, pe, tm, hv>>

Spec == Init /\ [][Next]_vars

\* ---- links followed in place while content is loading: one card, whose term is
\* replaced by followLink while resolutions started earlier are still awaited
MaxRaceCards == 1      \* ids the engine may generate in one run of the race
MaxRacePending == 2    \* content resolutions in flight at once in the race

InitRace == Init /\ ~linkFollowInNewCard /\ maxOpenCards = 1

NextRace ==
  \/ \E term \in Terms :
       /\ openCardWithin("openCard", term, 0, NoParent, MaxRaceCards, MaxRacePending)
       /\ UNCHANGED <<ui, pe, tm, hv>>
  \/ \E term \in Terms, fromCardId \in 1..MaxRaceCards :
       /\ followLinkWithin(term, fromCardId, MaxRacePending)
       /\ UNCHANGED <<ui, pe, tm, hv>>
  \/ \E i \in 1..MaxRacePending, outcome \in Outcomes :
       ResolveNext(i, outcome) /\ UNCHANGED <<ui, pe, tm, hv>>
  \/ \E i \in 1..MaxRacePending, outcome \in Outcomes :
       ResolveDone(i, outcome) /\ UNCHANGED <<ui, pe, tm, hv>>

SpecRace == InitRace /\ [][NextRace]_vars

\* ================================================== HoverKitProvider
\* The provider's React state is kept twice: as last rendered (cards,
\* cardAnimations) and with the queued updater functions applied (cardsNext,
\* cardAnimationsNext); dirty says that a render is pending.  Entries of the cards
\* array are the engine's card objects, of which the controller reads id and level.
\* A timer handle is kept with the timer: held says that closeTimerRef (kind "close")
\* or closingAnimationTimerRef (kind "closing") currently holds the handle.

Timer(kind, card, delay, held) ==
  [kind |-> kind, card |-> card, delay |-> delay, held |-> held, ids |-> <<>>]

\* the untracked timer of closeTopCardNow and closeAllCardsNow: it closes ids in order
NowTimer(ids) ==
  [kind |-> "now", card |-> 0, delay |-> "", held |-> FALSE, ids |-> ids]

\* the decimal digits of n
RECURSIVE DigitsOf(_)
DigitsOf(n) == IF n < 10 THEN <<n>> ELSE Append(DigitsOf(n \div 10), n % 10)

\* "hoverkit-card-a".localeCompare("hoverkit-card-b") < 0: the strings differ in
\* their digits only, compared from the left
LocaleLess(a, b) ==
  LET x == DigitsOf(a)
      y == DigitsOf(b)
      n == IF Len(x) < Len(y) THEN Len(x) ELSE Len(y)
  IN \/ \E i \in 1..n : x[i] < y[i] /\ \A j \in 1..(i - 1) : x[j] = y[j]
     \/ Len(x) < Len(y) /\ \A j \in 1..n : x[j] = y[j]

\* [...list].sort(level descending, then id.localeCompare descending)[0]; 0 when empty
TopOf(list) ==
  IF list = <<>> THEN 0
  ELSE LET i == CHOOSE k \in 1..Len(list) :
                  \A j \in 1..Len(list) :
                    \/ j = k
                    \/ list[k].level > list[j].level
                    \/ list[k].level = list[j].level /\ LocaleLess(list[j].id, list[k].id)
       IN list[i].id

getTopCard(u) == TopOf(u.cards)

getTopCardId(u) == TopOf(u.cardsRef)

\* cardAnimations.get(id) || 'idle'
AnimOf(m, id) == IF id \in DOMAIN m THEN m[id] ELSE "idle"

SetAnim(m, id, state) == [x \in DOMAIN m \cup {id} |-> IF x = id THEN state ELSE m[x]]

DelAnim(m, id) == [x \in DOMAIN m \ {id} |-> m[x]]

\* setCardAnimations(prev => ...): the updater always returns a new Map; React drops
\* the update of a component that has been unmounted
setCardAnimations(u, m) ==
  IF u.mounted THEN [u EXCEPT !.cardAnimationsNext = m, !.dirty = TRUE] ELSE u

\* setCards(prev => ...): the updater also assigns cardsRef.current; React runs it
\* at once when it may (eager, no update queued), otherwise in the next render
setCards(u, list, eager) ==
  [u EXCEPT !.cardsNext = list, !.dirty = TRUE,
            !.cardsRef = IF eager /\ ~u.dirty THEN list ELSE @]

\* PointerEngine.setZone: lastPointer is mutated in place and handed to
\* setPointerState; React schedules a render only when the object is not the one it
\* already holds
setZone(u, zone) ==
  IF u.overZone = zone THEN u
  ELSE [u EXCEPT !.overZone = zone,
                 !.dirty = @ \/ u.fresh,
                 !.fresh = FALSE,
                 !.calm = @ /\ zone = "none"]

\* PointerEngine.checkPointerZone for the element the hit test finds first
zoneAt(u) ==
  IF u.at \in u.cardElements
  THEN (IF u.at = getTopCardId(u) THEN "top-card" ELSE "other-card")
  ELSE IF u.at = -3 THEN "trigger" ELSE "none"

forceCheckPointerZone(u) == setZone(u, zoneAt(u))

handleCardOpen(u, id, level, eager) ==
  LET i == IF \E k \in 1..Len(u.cardsNext) : u.cardsNext[k].id = id
           THEN CHOOSE k \in 1..Len(u.cardsNext) : u.cardsNext[k].id = id ELSE 0
      card == [id |-> id, level |-> level]
      updated == IF i = 0 THEN Append(u.cardsNext, card)
                 ELSE [u.cardsNext EXCEPT ![i] = card]
      u1 == setCards([u EXCEPT !.graceActive = TRUE], updated, eager)
      u2 == [u1 EXCEPT !.hasCascadedRef = FALSE]
      u3 == IF id \in DOMAIN u2.cardAnimationsNext
            THEN setCardAnimations(u2, u2.cardAnimationsNext)
            ELSE IF u2.pointerOverStackRef
                 THEN setCardAnimations(u2, SetAnim(u2.cardAnimationsNext, id, "idle"))
                 ELSE [setCardAnimations(u2, SetAnim(u2.cardAnimationsNext, id, "entering"))
                         EXCEPT !.timers = @ \cup {Timer("enter", id, "", FALSE)}]
  IN forceCheckPointerZone(u3)

\* below: what the hit test finds first once the element of the closed card is no
\* longer registered
handleCardClose(u, cardId, eager, below) ==
  LET updated == SelectSeq(u.cardsNext, LAMBDA c : c.id # cardId)
      u1 == setCards(u, updated, eager)
      u2 == setCardAnimations(u1, DelAnim(u1.cardAnimationsNext, cardId))
      u3 == IF cardId \in u2.cardElements
            THEN forceCheckPointerZone(
                   [u2 EXCEPT !.cardElements = @ \ {cardId},
                              !.at = IF @ = cardId THEN below ELSE @])
            ELSE u2
  IN [u3 EXCEPT !.timers = @ \cup {Timer("recheck", 0, "", FALSE)}]

\* the cardOpen and cardClose listeners run inside the engine call, in emit order
RECURSIVE deliver(_, _, _, _)
deliver(u, evs, eager, below) ==
  IF evs = <<>> \/ ~u.mounted THEN u
  ELSE LET e == Head(evs)
           u1 == IF e.type = "cardOpen" THEN handleCardOpen(u, e.id, e.level, eager)
                 ELSE IF e.type = "cardClose" THEN handleCardClose(u, e.id, eager, below)
                 ELSE u
       IN deliver(u1, Tail(evs), eager, below)

\* clearTimeout(ref.current) for the handle of the given kind
clearHeld(u, kind) == [u EXCEPT !.timers = {t \in @ : ~(t.kind = kind /\ t.held)}]

\* ref.current = value that is not this timer's handle
dropHeld(ts, kind) ==
  {IF t.kind = kind THEN [t EXCEPT !.held = FALSE] ELSE t : t \in ts}

cancelTopCardClose(u) ==
  LET topCard == getTopCard(u)
      a == IF u.closeTimerRef
           THEN LET c == [clearHeld(u, "close") EXCEPT !.closeTimerRef = FALSE]
                    st == AnimOf(c.cardAnimationsNext, topCard)
                IN IF topCard # 0
                   THEN setCardAnimations(c,
                          IF topCard \in DOMAIN c.cardAnimationsNext
                               /\ st \in {"scheduled-close", "closing"}
                          THEN SetAnim(c.cardAnimationsNext, topCard, "idle")
                          ELSE c.cardAnimationsNext)
                   ELSE c
           ELSE u
      b == IF a.closingAnimationTimerRef
           THEN LET c == [clearHeld(a, "closing") EXCEPT !.closingAnimationTimerRef = FALSE]
                IN IF topCard # 0
                   THEN setCardAnimations(c,
                          IF topCard \in DOMAIN c.cardAnimationsNext
                               /\ c.cardAnimationsNext[topCard] = "closing"
                          THEN SetAnim(c.cardAnimationsNext, topCard, "idle")
                          ELSE c.cardAnimationsNext)
                   ELSE c
           ELSE a
  IN b

scheduleTopCardClose(u, delay) ==
  LET topCard == getTopCard(u)
  IN IF topCard = 0 THEN u
     ELSE LET a == IF u.closeTimerRef THEN clearHeld(u, "close") ELSE u
              b == setCardAnimations(a, SetAnim(a.cardAnimationsNext, topCard, "scheduled-close"))
          IN [b EXCEPT !.timers = dropHeld(@, "close") \cup {Timer("close", topCard, delay, TRUE)},
                       !.closeTimerRef = TRUE,
                       !.armed = delay]

\* pointer down outside cards and terms, or Escape
closeTopCardNow(u) ==
  LET topCard == getTopCard(u)
  IN IF topCard = 0 THEN u
     ELSE LET a == IF u.closeTimerRef
                   THEN [clearHeld(u, "close") EXCEPT !.closeTimerRef = FALSE] ELSE u
              b == setCardAnimations(a, SetAnim(a.cardAnimationsNext, topCard, "closing"))
          IN [b EXCEPT !.hasCascadedRef = TRUE,
                       !.timers = @ \cup {NowTimer(<<topCard>>)}]

\* a scroll handler that closes the top card only
closeAllAsTop(u) == closeTopCardNow(u)

\* window scroll
closeAllCardsNow(u) ==
  IF u.cardsRef = <<>> THEN u
  ELSE LET a == IF u.closeTimerRef
                THEN [clearHeld(u, "close") EXCEPT !.closeTimerRef = FALSE] ELSE u
           ids == [k \in 1..Len(u.cardsRef) |-> u.cardsRef[k].id]
           m == [x \in DOMAIN a.cardAnimationsNext \cup Range(ids) |->
                   IF x \in Range(ids) THEN "closing" ELSE a.cardAnimationsNext[x]]
       IN [setCardAnimations(a, m) EXCEPT !.hasCascadedRef = TRUE,
                                          !.timers = @ \cup {NowTimer(ids)}]

\* the timing the provider uses when the behavior prop gives none
ProviderDefaults ==
  [cardInitialPopDelayMs |-> 500, cardCascadePopDelayMs |-> 3000, cardFadeDurationMs |-> 200]

\* the defaults of HoverBehaviorConfigSchema
SchemaDefaults ==
  [cardInitialPopDelayMs |-> 1000, cardCascadePopDelayMs |-> 3000, cardFadeDurationMs |-> 200]

\* the milliseconds of the delay scheduleTopCardClose was called with
delayMs(config, delay) ==
  IF delay = "cascade" THEN config.cardCascadePopDelayMs ELSE config.cardInitialPopDelayMs

\* hasCascadedRef.current ? cardCascadePopDelayMs : cardInitialPopDelayMs
delayFor(u) == IF u.hasCascadedRef THEN "cascade" ELSE "initial"

\* the effect without its grace-window branch
pointerEffectNoGrace(u) ==
  LET topCard == getTopCard(u)
  IN IF topCard = 0 THEN [u EXCEPT !.hasCascadedRef = FALSE]
     ELSE LET animState == AnimOf(u.cardAnimations, topCard)
              u1 == [u EXCEPT !.pointerOverStackRef = u.overZone # "none"]
          IN IF u1.pointerOverStackRef
             THEN [cancelTopCardClose(u1) EXCEPT !.hasCascadedRef = FALSE]
             ELSE IF u1.overZone = "none" /\ animState = "idle"
                  THEN scheduleTopCardClose(u1, delayFor(u1))
                  ELSE u1

\* the effect "React to pointer state changes"
pointerEffect(u) ==
  LET topCard == getTopCard(u)
  IN IF topCard = 0 THEN [u EXCEPT !.hasCascadedRef = FALSE]
     ELSE LET animState == AnimOf(u.cardAnimations, topCard)
              u1 == [u EXCEPT !.pointerOverStackRef = u.overZone # "none"]
          IN IF u1.graceActive THEN cancelTopCardClose(u1)
             ELSE IF u1.pointerOverStackRef
                  THEN [cancelTopCardClose(u1) EXCEPT !.hasCascadedRef = FALSE]
                  ELSE IF u1.overZone = "none" /\ animState = "idle"
                       THEN scheduleTopCardClose(u1, delayFor(u1))
                       ELSE u1

\* ---- the steps of the page: user input, timers, renders
\* what the hit test at the pointer position finds first: a registered card element
\* (its id), a registered trigger, neither, or nothing because the pointer has left
\* the viewport (x = y = -1)
Outside == -1
Background == -2
Trigger == -3

Regions == {Outside, Background, Trigger} \cup Ids

\* a step that calls nothing of the engine
engineIdle ==
  /\ events' = <<>>
  /\ lastOp' = Op("ui", 0, NoParent, 0, "", 0)
  /\ UNCHANGED <<cards, detached, cardIdCounter, now, pending, maxOpenCards,
                 linkFollowInNewCard, closedLevel>>

begin(step) == [ui EXCEPT !.step = step, !.armed = ""]

closedBy(evs) == {evs[i].id : i \in EventsOf(evs, "cardClose")}

\* the listeners of the engine call this step made; eager and below are fixed when
\* they cannot matter
listeners(u, eager, below) ==
  /\ eager => ~ui.dirty
  /\ IF ui.at \in closedBy(events')
     THEN below \in {Background, Trigger} \cup (ui.cardElements \ closedBy(events'))
     ELSE below = Background
  /\ ui' = deliver(u, events', eager, below)

\* HoverTerm (mouse enter, click, touch end, Enter or Space) opens a root card;
\* a term inside a rendered card with content opens a child of that card
HoverOpen(term, parentId, eager, below) ==
  /\ \/ parentId = NoParent
     \/ /\ parentId \in ui.cardElements
        /\ parentId \in DOMAIN cards
        /\ cards[parentId].content # Null
  /\ cardIdCounter < MaxCtlCards
  /\ OpenCard(term, parentId)
  /\ listeners(begin("open"), eager, below)

ResolutionEnds(i, outcome, eager) ==
  /\ ResolveDone(i, outcome)
  /\ listeners(begin("resolved"), eager, Background)

\* the close button of a rendered card
CloseButton(cardId, eager, below) ==
  /\ cardId \in ui.cardElements
  /\ CloseCard(cardId)
  /\ listeners(begin("button"), eager, below)

\* a pointer sample: updatePointer replaces lastPointer, the frame callback
\* classifies the position
PointerMove(p) ==
  /\ p \in Ids => p \in ui.cardElements
  /\ ui' = forceCheckPointerZone([begin("pointer") EXCEPT !.at = p, !.fresh = TRUE])
  /\ engineIdle

\* React renders the provider and its cards and runs the effects: StackedCard
\* registers the element of every card it rendered, then the provider's effects run.
\* live: the ids engine.getCard still answers; hit: the new element that now lies
\* under the pointer, 0 when none does
freshElements(u, live) ==
  ({u.cardsNext[k].id : k \in 1..Len(u.cardsNext)} \cap live) \ u.cardElements

rendered(u, hit, live) ==
  LET u0 == [u EXCEPT !.cards = u.cardsNext,
                      !.cardAnimations = u.cardAnimationsNext,
                      !.cardsRef = u.cardsNext,
                      !.dirty = FALSE]
      u1 == [u0 EXCEPT !.cardElements = @ \cup freshElements(u, live),
                       !.at = IF hit # 0 THEN hit ELSE @]
  IN pointerEffect(forceCheckPointerZone(u1))

Render(hit) ==
  /\ ui.dirty
  /\ hit # 0 => hit \in freshElements(ui, DOMAIN cards) /\ ui.at # Outside
  /\ ui' = rendered(begin("render"), hit, DOMAIN cards)
  /\ engineIdle

\* the setTimeout of scheduleTopCardClose: it requests an animation frame
CloseTimerFires(t) ==
  /\ t \in ui.timers /\ t.kind = "close"
  /\ ui' = [begin("closeTimer") EXCEPT
              !.timers = (@ \ {t}) \cup {Timer("frame", t.card, "", FALSE)}]
  /\ engineIdle

\* the animation frame: the card starts closing and the fade timer is armed
FrameFires(t) ==
  /\ t \in ui.timers /\ t.kind = "frame"
  /\ LET u0 == begin("frame")
         u1 == setCardAnimations(u0, SetAnim(u0.cardAnimationsNext, t.card, "closing"))
     IN ui' = [u1 EXCEPT
                 !.timers = dropHeld(@ \ {t}, "closing")
                              \cup {Timer("closing", t.card, "", TRUE)},
                 !.closingAnimationTimerRef = TRUE]
  /\ engineIdle

\* the fade timer: engine.closeCard, both refs null, hasCascadedRef true
ClosingTimerFires(t, eager, below) ==
  /\ t \in ui.timers /\ t.kind = "closing"
  /\ CloseCard(t.card)
  /\ eager => ~ui.dirty
  /\ IF ui.at \in closedBy(events')
     THEN below \in {Background, Trigger} \cup (ui.cardElements \ closedBy(events'))
     ELSE below = Background
  /\ LET u0 == [begin("autoClose") EXCEPT !.timers = @ \ {t}]
         u1 == deliver(u0, events', eager, below)
     IN ui' = [u1 EXCEPT !.closeTimerRef = FALSE,
                         !.closingAnimationTimerRef = FALSE,
                         !.timers = dropHeld(dropHeld(@, "close"), "closing"),
                         !.hasCascadedRef = TRUE,
                         !.calm = u1.overZone = "none"]

\* the 500 ms timer of handleCardOpen
EnterTimerFires(t) ==
  /\ t \in ui.timers /\ t.kind = "enter"
  /\ LET u0 == [begin("enterTimer") EXCEPT !.timers = @ \ {t}]
         m == u0.cardAnimationsNext
     IN ui' = setCardAnimations(u0,
                IF t.card \in DOMAIN m /\ m[t.card] = "entering"
                THEN SetAnim(m, t.card, "idle") ELSE m)
  /\ engineIdle

\* the setTimeout(0) of handleCardClose
RecheckFires(t) ==
  /\ t \in ui.timers /\ t.kind = "recheck"
  /\ ui' = forceCheckPointerZone([begin("recheck") EXCEPT !.timers = @ \ {t}])
  /\ engineIdle

\* Date.now() reaches openGraceUntilRef.current
GraceElapses ==
  /\ ui.graceActive
  /\ ui' = [begin("grace") EXCEPT !.graceActive = FALSE]
  /\ engineIdle

\* the window's pointerdown handler (primary button, the target in no card and no
\* term) and its keydown handler (Escape)
CloseNow(key) ==
  /\ key \/ ui.at = Background
  /\ ui' = closeTopCardNow(begin("closeNow"))
  /\ engineIdle

\* StackedCard.isTopCard: [...cards].sort((a, b) => b.level - a.level)[0]?.id === cardId;
\* the sort is stable, so the first card of the highest level in list order
isTopCard(list, cardId) ==
  \E k \in 1..Len(list) :
    /\ list[k].id = cardId
    /\ \A j \in 1..Len(list) : list[j].level <= list[k].level
    /\ \A j \in 1..(k - 1) : list[j].level < list[k].level

\* Escape with the focus inside the card StackedCard treats as top: the keydown
\* listener of the card's element calls engine.closeCard(cardId), then the event
\* reaches the window's keydown handler.  flushed: React has rendered and re-run the
\* effects between the two listeners, so the window's handler is the one registered
\* by that render; otherwise it is the handler of the last render
EscapeInCard(cardId, eager, flushed) ==
  /\ cardId \in ui.cardElements
  /\ isTopCard(ui.cards, cardId)
  /\ CloseCard(cardId)
  /\ eager => ~ui.dirty
  /\ LET u1 == deliver(begin("escape"), events', eager, Background)
         u2 == IF flushed /\ u1.dirty THEN rendered(u1, 0, DOMAIN cards') ELSE u1
     IN ui' = closeTopCardNow(u2)

\* the window's scroll handler
Scroll ==
  /\ ui' = closeAllCardsNow(begin("scroll"))
  /\ engineIdle

\* the fade timer of closeTopCardNow and closeAllCardsNow
NowTimerFires(t, eager, below) ==
  /\ t \in ui.timers /\ t.kind = "now"
  /\ CloseCards(t.ids)
  /\ listeners([begin("closedNow") EXCEPT !.timers = @ \ {t}], eager, below)

CtlTerms == {"t1"}

InitCtl == Init /\ linkFollowInNewCard

\* React's render, an animation frame and a zero-delay timeout are due within a
\* frame: they run before the next input, before the timers of 75 ms and more, and
\* before a source answers.  The first source answers every term with content.
urgent == ui.dirty \/ \E t \in ui.timers : t.kind \in {"frame", "recheck"}

NextCtl ==
  \/ \E hit \in 0..MaxCards : Render(hit) /\ UNCHANGED <<pe, tm, hv>>
  \/ \E t \in ui.timers : FrameFires(t) /\ UNCHANGED <<pe, tm, hv>>
  \/ \E t \in ui.timers : RecheckFires(t) /\ UNCHANGED <<pe, tm, hv>>
  \/ \E p \in Regions : ~urgent /\ PointerMove(p) /\ UNCHANGED <<pe, tm, hv>>
  \/ \E term \in CtlTerms, parentId \in 0..MaxCtlCards, eager \in BOOLEAN, below \in Regions :
       ~urgent /\ HoverOpen(term, parentId, eager, below) /\ UNCHANGED <<pe, tm, hv>>
  \/ \E i \in 1..MaxPending, eager \in BOOLEAN :
       ~urgent /\ ResolutionEnds(i, "content", eager) /\ UNCHANGED <<pe, tm, hv>>
  \/ \E cardId \in Ids, eager \in BOOLEAN, below \in Regions :
       ~urgent /\ CloseButton(cardId, eager, below) /\ UNCHANGED <<pe, tm, hv>>
  \/ \E t \in ui.timers : ~urgent /\ CloseTimerFires(t) /\ UNCHANGED <<pe, tm, hv>>
  \/ \E t \in ui.timers, eager \in BOOLEAN, below \in Regions :
       ~urgent /\ ClosingTimerFires(t, eager, below) /\ UNCHANGED <<pe, tm, hv>>
  \/ \E t \in ui.timers : ~urgent /\ EnterTimerFires(t) /\ UNCHANGED <<pe, tm, hv>>
  \/ ~urgent /\ GraceElapses /\ UNCHANGED <<pe, tm, hv>>

SpecCtl == InitCtl /\ [][NextCtl]_vars

\* ---- the provider left to itself.  The browser runs every due callback: a render
\* React has scheduled, a requested animation frame, an armed timer, the end of the
\* grace window as time passes, and a source answers in the end.  Pointer moves, opens
\* and the close button are the user's and may never happen.
CtlProgress ==
  \/ \E hit \in 0..MaxCards : Render(hit) /\ UNCHANGED <<pe, tm, hv>>
  \/ \E t \in ui.timers : FrameFires(t) /\ UNCHANGED <<pe, tm, hv>>
  \/ \E t \in ui.timers : RecheckFires(t) /\ UNCHANGED <<pe, tm, hv>>
  \/ \E i \in 1..MaxPending, eager \in BOOLEAN :
       ~urgent /\ ResolutionEnds(i, "content", eager) /\ UNCHANGED <<pe, tm, hv>>
  \/ \E t \in ui.timers : ~urgent /\ CloseTimerFires(t) /\ UNCHANGED <<pe, tm, hv>>
  \/ \E t \in ui.timers, eager \in BOOLEAN, below \in Regions :
       ~urgent /\ ClosingTimerFires(t, eager, below) /\ UNCHANGED <<pe, tm, hv>>
  \/ \E t \in ui.timers : ~urgent /\ EnterTimerFires(t) /\ UNCHANGED <<pe, tm, hv>>
  \/ ~urgent /\ GraceElapses /\ UNCHANGED <<pe, tm, hv>>

SpecCtlFair == InitCtl /\ [][NextCtl]_vars /\ WF_vars(CtlProgress)

\* ---- teardown: the provider is unmounted.  The cleanups of its effects run: the
\* pointer engine is stopped (lines 182-188), the window listeners are removed (lines
\* 401-405), the engine listeners are removed (lines 491-494); the cards it rendered
\* unregister their elements.  No cleanup clears a timer.
Unmount ==
  /\ ui.mounted
  /\ ui' = [begin("unmount") EXCEPT !.mounted = FALSE, !.cardElements = {}]
  /\ engineIdle

\* the page driven by the keyboard and the scroll wheel, the pointer resting outside
\* every card and term, until the provider is unmounted; timers outlive the unmount
NextDown ==
  \/ \E hit \in 0..MaxCards : ui.mounted /\ Render(hit) /\ UNCHANGED <<pe, tm, hv>>
  \/ \E t \in ui.timers : FrameFires(t) /\ UNCHANGED <<pe, tm, hv>>
  \/ \E t \in ui.timers : RecheckFires(t) /\ UNCHANGED <<pe, tm, hv>>
  \/ \E term \in CtlTerms, eager \in BOOLEAN :
       ~urgent /\ ui.mounted /\ HoverOpen(term, NoParent, eager, Background) /\ UNCHANGED <<pe, tm, hv>>
  \/ \E i \in 1..MaxPending, eager \in BOOLEAN :
       ~urgent /\ ResolutionEnds(i, "content", eager) /\ UNCHANGED <<pe, tm, hv>>
  \/ \E t \in ui.timers : ~urgent /\ CloseTimerFires(t) /\ UNCHANGED <<pe, tm, hv>>
  \/ \E t \in ui.timers, eager \in BOOLEAN :
       ~urgent /\ ClosingTimerFires(t, eager, Background) /\ UNCHANGED <<pe, tm, hv>>
  \/ \E t \in ui.timers : ~urgent /\ EnterTimerFires(t) /\ UNCHANGED <<pe, tm, hv>>
  \/ ~urgent /\ GraceElapses /\ UNCHANGED <<pe, tm, hv>>
  \/ \E key \in BOOLEAN : ~urgent /\ ui.mounted /\ CloseNow(key) /\ UNCHANGED <<pe, tm, hv>>
  \/ \E cardId \in Ids, eager \in BOOLEAN, flushed \in BOOLEAN :
       ~urgent /\ ui.mounted /\ EscapeInCard(cardId, eager, flushed) /\ UNCHANGED <<pe, tm, hv>>
  \/ ~urgent /\ ui.mounted /\ Scroll /\ UNCHANGED <<pe, tm, hv>>
  \/ \E t \in ui.timers, eager \in BOOLEAN :
       ~urgent /\ NowTimerFires(t, eager, Background) /\ UNCHANGED <<pe, tm, hv>>
  \/ ~urgent /\ Unmount /\ UNCHANGED <<pe, tm, hv>>

SpecDown == InitCtl /\ [][NextDown]_vars

\* ---- the page under every setting of closeOnEscape and closeOnClickOutside, with
\* root cards opened from the keyboard, the pointer outside the viewport until it
\* comes to rest over the background away from where the cards appear, Escape
\* pressed and the primary button pressed
handleKeyDown(u) == closeTopCardNow(u)

\* the target is in no card and no term
handlePointerDown(u) == IF u.at = Background THEN closeTopCardNow(u) ELSE u

KeyDown ==
  /\ ui' = handleKeyDown(begin("keydown"))
  /\ engineIdle

PointerDown ==
  /\ ui.at # Outside
  /\ ui' = handlePointerDown(begin("pointerdown"))
  /\ engineIdle

InitOpts ==
  /\ InitEngine /\ linkFollowInNewCard = TRUE
  /\ \E closeOnEscape \in BOOLEAN, closeOnClickOutside \in BOOLEAN :
       ui = [UiInit EXCEPT !.closeOnEscape = closeOnEscape,
                           !.closeOnClickOutside = closeOnClickOutside]
  /\ pe = PtrInit
  /\ tm = TmInit(FALSE, "word-boundary")
  /\ hv = HvInit

NextOpts ==
  \/ Render(0) /\ UNCHANGED <<pe, tm, hv>>
  \/ \E t \in ui.timers : FrameFires(t) /\ UNCHANGED <<pe, tm, hv>>
  \/ \E t \in ui.timers : RecheckFires(t) /\ UNCHANGED <<pe, tm, hv>>
  \/ ~urgent /\ PointerMove(Background) /\ UNCHANGED <<pe, tm, hv>>
  \/ \E term \in CtlTerms, eager \in BOOLEAN :
       ~urgent /\ HoverOpen(term, NoParent, eager, Background) /\ UNCHANGED <<pe, tm, hv>>
  \/ \E i \in 1..MaxPending, eager \in BOOLEAN :
       ~urgent /\ ResolutionEnds(i, "content", eager) /\ UNCHANGED <<pe, tm, hv>>
  \/ \E t \in ui.timers : ~urgent /\ CloseTimerFires(t) /\ UNCHANGED <<pe, tm, hv>>
  \/ \E t \in ui.timers, eager \in BOOLEAN :
       ~urgent /\ ClosingTimerFires(t, eager, Background) /\ UNCHANGED <<pe, tm, hv>>
  \/ \E t \in ui.timers : ~urgent /\ EnterTimerFires(t) /\ UNCHANGED <<pe, tm, hv>>
  \/ ~urgent /\ GraceElapses /\ UNCHANGED <<pe, tm, hv>>
  \/ ~urgent /\ KeyDown /\ UNCHANGED <<pe, tm, hv>>
  \/ ~urgent /\ PointerDown /\ UNCHANGED <<pe, tm, hv>>
  \/ \E cardId \in Ids, eager \in BOOLEAN, flushed \in BOOLEAN :
       ~urgent /\ EscapeInCard(cardId, eager, flushed) /\ UNCHANGED <<pe, tm, hv>>
  \/ \E t \in ui.timers, eager \in BOOLEAN :
       ~urgent /\ NowTimerFires(t, eager, Background) /\ UNCHANGED <<pe, tm, hv>>

SpecOpts == InitOpts /\ [][NextOpts]_vars

\* ---- a page that has been in use: the engine has generated ids up to MaxTopId
\* over its lifetime, one or two of the cards are still open (two root cards, or a
\* root card and its child), their content has resolved, they are rendered and
\* idle, and the pointer rests on a term.  From there the user moves the pointer
\* between the term and the cards and closes cards with their close buttons.
MaxTopId == 11         \* ids the engine has generated before

TopIds == 1..MaxTopId

openCardOf(parentId, level) ==
  loaded(newCard("t1", parentId, level, 0), contentOf(1, "t1"))

InitTop ==
  /\ detached = <<>> /\ now = 0 /\ pending = <<>>
  /\ maxOpenCards = MaxCap /\ linkFollowInNewCard = TRUE
  /\ events = <<>> /\ lastOp = Op("init", 0, NoParent, 0, "", 0)
  /\ \E a \in TopIds, b \in TopIds, level \in 0..1 :
       LET ids == {a, b}
           list == [k \in 1..Cardinality(ids) |->
                      [id |-> IF k = 1 THEN a ELSE b, level |-> IF k = 1 THEN 0 ELSE level]]
           anim == [id \in ids |-> "idle"]
       IN /\ a <= b
          /\ cards = [id \in ids |->
                        IF id = a THEN openCardOf(NoParent, 0)
                        ELSE openCardOf(IF level = 0 THEN NoParent ELSE a, level)]
          /\ cardIdCounter = b
          /\ closedLevel = [id \in (1..b) \ ids |-> 0]
          /\ ui = [UiInit EXCEPT !.cards = list, !.cardsNext = list, !.cardsRef = list,
                                 !.cardAnimations = anim, !.cardAnimationsNext = anim,
                                 !.cardElements = ids,
                                 !.at = Trigger, !.overZone = "trigger",
                                 !.pointerOverStackRef = TRUE]
  /\ pe = PtrInit
  /\ tm = TmInit(FALSE, "word-boundary")
  /\ hv = HvInit

NextTop ==
  \/ Render(0) /\ UNCHANGED <<pe, tm, hv>>
  \/ \E t \in ui.timers : RecheckFires(t) /\ UNCHANGED <<pe, tm, hv>>
  \/ \E p \in {Trigger} \cup TopIds : ~urgent /\ PointerMove(p) /\ UNCHANGED <<pe, tm, hv>>
  \/ \E cardId \in TopIds, eager \in BOOLEAN, below \in {Background, Trigger} \cup TopIds :
       ~urgent /\ CloseButton(cardId, eager, below) /\ UNCHANGED <<pe, tm, hv>>

SpecTop == InitTop /\ [][NextTop]_vars

\* ====================================================== PointerEngine
\* The pointer engine on its own, with the detail the controller above abstracts
\* from: the animation-frame request, the skip counter, the touch-end delay, the
\* listeners and the element lists of the hit test.
\* An element of a hit list is given by what closest() finds from it: its nearest
\* [data-card-id] element (card, 0 when there is none) and its nearest
\* [data-hover-term] element (trig, 0 when there is none).  A card element c is
\* registered under the card id c.
MaxPtrCards == 2       \* card elements on the page, for the classification alone
MaxHits == 2           \* elements document.elementsFromPoint returns, likewise
MaxLiveCards == 1      \* card elements on the page while the engine runs
MaxLiveHits == 1       \* elements document.elementsFromPoint returns while it runs
MaxFrames == 2         \* animation-frame callbacks that may be pending at once
MaxTouch == 1          \* touch-end delays that may be pending at once

Elems(n) == [card : 0..n, trig : 0..1]

HitLists(n, len) == UNION {[1..k -> Elems(n)] : k \in 0..len}

\* the first position of the list among those that pass the test of the loop
\* (matching), 0 when none
FirstHit(hits, matching) ==
  IF matching # {}
  THEN CHOOSE i \in matching : \A j \in matching : i <= j
  ELSE 0

\* checkPointerZone with the loops in the other order
zoneOfTriggersFirst(inside, hits, cardEls, triggerEls, topCardId) ==
  LET t == FirstHit(hits, {i \in 1..Len(hits) : hits[i].trig # 0 /\ hits[i].trig \in triggerEls})
      c == FirstHit(hits, {i \in 1..Len(hits) : hits[i].card # 0 /\ hits[i].card \in cardEls})
  IN IF ~inside THEN "none"
     ELSE IF t # 0 THEN "trigger"
     ELSE IF c # 0 THEN (IF hits[c].card = topCardId THEN "top-card" ELSE "other-card")
     ELSE "none"

\* the zone checkPointerZone hands to setZone
zoneOf(inside, hits, cardEls, triggerEls, topCardId) ==
  LET c == FirstHit(hits, {i \in 1..Len(hits) : hits[i].card # 0 /\ hits[i].card \in cardEls})
      t == FirstHit(hits, {i \in 1..Len(hits) : hits[i].trig # 0 /\ hits[i].trig \in triggerEls})
  IN IF ~inside THEN "none"
     ELSE IF c # 0 THEN (IF hits[c].card = topCardId THEN "top-card" ELSE "other-card")
     ELSE IF t # 0 THEN "trigger"
     ELSE "none"

\* the calls of one notifyListeners: every listener of the Set, with the zone it
\* was told before
notifyAll(p, zone) ==
  [p EXCEPT !.calls = @ \o [k \in 1..Len(SortedIds(p.listeners)) |->
                              [listener |-> SortedIds(p.listeners)[k], zone |-> zone,
                               prev |-> p.reported[SortedIds(p.listeners)[k]]]],
            !.reported = [l \in Listeners |-> IF l \in p.listeners THEN zone ELSE @[l]]]

\* setZone that notifies whether or not the zone changed
ptrSetZoneAlways(p, zone) == notifyAll([p EXCEPT !.overZone = zone], zone)

ptrSetZone(p, zone) ==
  IF p.overZone # zone THEN notifyAll([p EXCEPT !.overZone = zone], zone) ELSE p

checkPointerZone(p) ==
  ptrSetZone([p EXCEPT !.checked = TRUE],
             zoneOf(p.inside, p.hits, p.cards, p.triggers, p.topCardId))

\* cancelAnimationFrame(this.frameRequest); this.frameRequest = null
cancelFrame(p) ==
  IF p.frameRequest # 0
  THEN [p EXCEPT !.frames = @ \ {p.frameRequest}, !.frameRequest = 0]
  ELSE p

\* a forced check that leaves the requested frame pending
ptrCheckOnly(p) == checkPointerZone(p)

ptrForceCheck(p) == checkPointerZone(cancelFrame(p))

\* a handle requestAnimationFrame has not handed out to a pending callback
newHandle(p) == CHOOSE h \in 1..(MaxFrames + 1) : h \notin p.frames

\* the end of updatePointer without the test of frameRequest
requestFrameAlways(p) ==
  [p EXCEPT !.frameRequest = newHandle(p), !.frames = @ \cup {newHandle(p)}]

\* if (!this.frameRequest) this.frameRequest = requestAnimationFrame(...)
requestFrame(p) ==
  IF p.frameRequest = 0
  THEN [p EXCEPT !.frameRequest = newHandle(p), !.frames = @ \cup {newHandle(p)}]
  ELSE p

\* slow: a velocity was computed and both components are below the threshold; no
\* velocity is computed when the last position was outside the viewport
updatePointer(p, inside, hits, slow, forceCheck) ==
  LET skip == slow /\ p.inside
      p1 == [p EXCEPT !.inside = inside, !.hits = hits]
  IN IF ~forceCheck /\ skip /\ p.frameSkipCounter + 1 < 3
     THEN [p1 EXCEPT !.frameSkipCounter = @ + 1]
     ELSE requestFrame([p1 EXCEPT !.frameSkipCounter = 0])

\* ---- the steps of the pointer engine
\* step, arg, calls, checked and wasPending describe the last step: its name, the
\* listener it was given, the listener calls it made, whether it classified the
\* position, and whether a frame callback was pending when it began
ptrBegin(step) ==
  [pe EXCEPT !.step = step, !.calls = <<>>, !.checked = FALSE, !.arg = 0,
             !.wasPending = pe.frames # {}]

ptrOnly ==
  UNCHANGED <<cards, detached, cardIdCounter, now, pending, maxOpenCards,
              linkFollowInNewCard, events, lastOp, closedLevel, ui, tm, hv>>

\* subscribe(listener): the Set takes the listener, which is called at once
PtrSubscribe(l) ==
  /\ ~pe.stopped
  /\ LET p == ptrBegin("subscribe")
     IN pe' = [p EXCEPT !.listeners = @ \cup {l}, !.arg = l,
                        !.calls = <<[listener |-> l, zone |-> p.overZone,
                                     prev |-> p.reported[l]]>>,
                        !.reported[l] = p.overZone]
  /\ ptrOnly

PtrUnsubscribe(l) ==
  /\ l \in pe.listeners
  /\ pe' = [ptrBegin("unsubscribe") EXCEPT !.listeners = @ \ {l}]
  /\ ptrOnly

PtrStart ==
  /\ ~pe.attached /\ ~pe.stopped
  /\ pe' = [ptrBegin("start") EXCEPT !.attached = TRUE]
  /\ ptrOnly

PtrStop ==
  /\ ~pe.stopped
  /\ pe' = [cancelFrame(ptrBegin("stop")) EXCEPT !.attached = FALSE, !.stopped = TRUE]
  /\ ptrOnly

\* pointermove, touchstart, touchmove: a sample inside the viewport
PtrSample(hits, slow) ==
  /\ pe.attached
  /\ Cardinality(pe.frames) < MaxFrames
  /\ pe' = updatePointer(ptrBegin("sample"), TRUE, hits, slow, FALSE)
  /\ ptrOnly

\* pointerleave, or the document becomes hidden: updatePointer(-1, -1)
PtrLeave(slow) ==
  /\ pe.attached
  /\ Cardinality(pe.frames) < MaxFrames
  /\ pe' = updatePointer(ptrBegin("leave"), FALSE, <<>>, slow, FALSE)
  /\ ptrOnly

\* touchend: setTimeout(..., 100)
PtrTouchEnd ==
  /\ pe.attached
  /\ pe.touchTimers < MaxTouch
  /\ pe' = [ptrBegin("touchEnd") EXCEPT !.touchTimers = @ + 1]
  /\ ptrOnly

\* the touch-end delay is over: updatePointer at the last position with forceCheck
PtrTouchTimerFires ==
  /\ pe.touchTimers > 0
  /\ Cardinality(pe.frames) < MaxFrames
  /\ LET p == [ptrBegin("touchTimer") EXCEPT !.touchTimers = @ - 1]
     IN pe' = updatePointer(p, p.inside, p.hits, FALSE, TRUE)
  /\ ptrOnly

\* the animation-frame callback with handle h runs
PtrFrame(h) ==
  /\ h \in pe.frames
  /\ pe' = checkPointerZone([ptrBegin("frame") EXCEPT !.frames = @ \ {h},
                                                      !.frameRequest = 0])
  /\ ptrOnly

\* registerCard / unregisterCard / registerTrigger / unregisterTrigger
PtrRegister(isCard, el, add) ==
  /\ ~pe.stopped
  /\ IF isCard THEN el \in 1..MaxLiveCards /\ (add <=> el \notin pe.cards)
               ELSE el = 1 /\ (add <=> el \notin pe.triggers)
  /\ LET p == ptrBegin("register")
         p1 == IF isCard
               THEN [p EXCEPT !.cards = IF add THEN @ \cup {el} ELSE @ \ {el}]
               ELSE [p EXCEPT !.triggers = IF add THEN @ \cup {el} ELSE @ \ {el}]
     IN pe' = ptrForceCheck(p1)
  /\ ptrOnly

\* the host's list of cards changes: getTopCardId() answers id, 0 for null
PtrSetTop(id) ==
  /\ ~pe.stopped
  /\ id # pe.topCardId
  /\ pe' = [ptrBegin("top") EXCEPT !.topCardId = id]
  /\ ptrOnly

InitPtr == Init /\ linkFollowInNewCard /\ maxOpenCards = 1

NextPtr ==
  \/ \E l \in Listeners : PtrSubscribe(l)
  \/ \E l \in Listeners : PtrUnsubscribe(l)
  \/ PtrStart
  \/ PtrStop
  \/ \E hits \in HitLists(MaxLiveCards, MaxLiveHits), slow \in BOOLEAN :
       PtrSample(hits, slow)
  \/ \E slow \in BOOLEAN : PtrLeave(slow)
  \/ PtrTouchEnd
  \/ PtrTouchTimerFires
  \/ \E h \in 1..(MaxFrames + 1) : PtrFrame(h)
  \/ \E isCard \in BOOLEAN, el \in 1..MaxLiveCards, add \in BOOLEAN :
       PtrRegister(isCard, el, add)
  \/ \E id \in 0..MaxLiveCards : PtrSetTop(id)

SpecPtr == InitPtr /\ [][NextPtr]_vars

\* ---- the pointer engine left to itself: the browser runs every requested animation
\* frame and every armed touch-end timer
PtrProgress ==
  \/ \E h \in 1..(MaxFrames + 1) : PtrFrame(h)
  \/ PtrTouchTimerFires

SpecPtrFair == InitPtr /\ [][NextPtr]_vars /\ WF_vars(PtrProgress)

\* ---- the classification alone: any pointer position, hit list, registry and top
\* card id; setTopCardId(id) classifies at once
PtrSetTopCardId ==
  /\ ~pe.checked
  /\ pe' = checkPointerZone(ptrBegin("setTopCardId"))
  /\ ptrOnly

InitZone ==
  /\ InitEngine /\ linkFollowInNewCard /\ maxOpenCards = 1
  /\ ui = UiInit
  /\ \E inside \in BOOLEAN, hits \in HitLists(MaxPtrCards, MaxHits),
        cardEls \in SUBSET (1..MaxPtrCards), triggerEls \in SUBSET {1},
        topCardId \in 0..MaxPtrCards, zone \in {"none", "top-card", "other-card", "trigger"} :
       pe = [PtrInit EXCEPT !.inside = inside, !.hits = hits, !.cards = cardEls,
                            !.triggers = triggerEls, !.topCardId = topCardId,
                            !.overZone = zone]
  /\ tm = TmInit(FALSE, "word-boundary")
  /\ hv = HvInit

NextZone == PtrSetTopCardId

SpecZone == InitZone /\ [][NextZone]_vars

\* ======================================================== TermMatcher
\* Strings are sequences of character codes: 0 is the space, 1..26 are the letters
\* a..z and 27..52 the letters A..Z.  Offsets of matches count from 0 as in
\* JavaScript.  Confidence is given in tenths (10 for 1.0, 9 for 0.9, 8 for 0.8).
MaxTermLen == 2        \* characters of a term or alias given to addTerm
MaxTextLen == 3        \* characters of the text of an element with one text node
MaxSegLen == 2         \* characters of a text node of an element with two text nodes
MaxAdds == 1           \* addTerm calls in one run
MaxScans == 1          \* findMatches calls in one run

Lc(k) == k

Uc(k) == k + 26

Chars == {0, Lc(1), Uc(1), Lc(2)}

Strings(len) == UNION {[1..n -> Chars] : n \in 0..len}

TermStrings == UNION {[1..n -> Chars \ {0}] : n \in 1..MaxTermLen}

\* "API" and "Learn the API today"
ExampleTerm == <<Uc(1), Uc(16), Uc(9)>>

ExampleText ==
  <<Uc(12), Lc(5), Lc(1), Lc(18), Lc(14), 0, Lc(20), Lc(8), Lc(5), 0,
    Uc(1), Uc(16), Uc(9), 0, Lc(20), Lc(15), Lc(4), Lc(1), Lc(25)>>

\* String.prototype.toLowerCase
toLowerCase(str) == [i \in 1..Len(str) |-> IF str[i] > 26 THEN str[i] - 26 ELSE str[i]]

\* this.config.caseSensitive ? str : str.toLowerCase()
normalized(t, str) == IF t.caseSensitive THEN str ELSE toLowerCase(str)

\* Set.prototype.add: insertion order, no duplicates
setAdd(seq, x) == IF x \in Range(seq) THEN seq ELSE Append(seq, x)

\* Map.prototype.set: a key that is present keeps its place
mapSet(m, key, val) ==
  IF \E i \in 1..Len(m) : m[i].key = key
  THEN [i \in 1..Len(m) |-> IF m[i].key = key THEN [key |-> key, val |-> val] ELSE m[i]]
  ELSE Append(m, [key |-> key, val |-> val])

\* aliases.forEach(alias => this.terms.add(normalizedAlias))
RECURSIVE addAll(_, _)
addAll(seq, xs) == IF xs = <<>> THEN seq ELSE addAll(setAdd(seq, Head(xs)), Tail(xs))

\* addTerm(term, aliases); aliases <<>> when the argument is absent
addTerm(t, term, aliases) ==
  LET normalizedTerm == normalized(t, term)
      normalizedAliases == [i \in 1..Len(aliases) |-> normalized(t, aliases[i])]
  IN IF aliases = <<>>
     THEN [t EXCEPT !.terms = setAdd(@, normalizedTerm)]
     ELSE [t EXCEPT !.terms = addAll(setAdd(@, normalizedTerm), normalizedAliases),
                    !.aliases = mapSet(@, normalizedTerm, normalizedAliases)]

\* \w of a regular expression, for the characters of the model
isWordChar(str, i) == i \in 1..Len(str) /\ str[i] # 0

\* \b at offset p: a word character on exactly one side
wordBoundary(str, p) == isWordChar(str, p) # isWordChar(str, p + 1)

\* a regular expression with the i flag but not the u flag compares the characters
\* after mapping them to one case
sameIgnoringCase(a, b) == toLowerCase(a) = toLowerCase(b)

\* the expression built for term (flags 'gi') matches str at offset i
matchesAt(str, term, strategy, i) ==
  /\ i + Len(term) <= Len(str)
  /\ sameIgnoringCase(SubSeq(str, i + 1, i + Len(term)), term)
  /\ strategy = "word-boundary" => wordBoundary(str, i) /\ wordBoundary(str, i + Len(term))

\* the offsets regex.exec finds one after another, starting at lastIndex
RECURSIVE execAll(_, _, _, _)
execAll(str, term, strategy, lastIndex) ==
  LET found == {i \in lastIndex..Len(str) : matchesAt(str, term, strategy, i)}
  IN IF found = {} THEN <<>>
     ELSE LET index == CHOOSE i \in found : \A j \in found : i <= j
          IN <<index>> \o execAll(str, term, strategy, index + Len(term))

\* the canonical term of an alias, by the first Map entry whose list includes it
getCanonicalTerm(t, term) ==
  LET has == {i \in 1..Len(t.aliases) : term \in Range(t.aliases[i].val)}
  IN IF has = {} THEN term
     ELSE t.aliases[CHOOSE i \in has : \A j \in has : i <= j].key

calculateConfidence(term, matchedText) ==
  IF term = matchedText THEN 10
  ELSE IF toLowerCase(term) = toLowerCase(matchedText) THEN 9
  ELSE 8

\* the matches of one term in one text node; via records the term searched for
matchesOfTerm(t, searchText, term, node) ==
  LET at == execAll(searchText, term, t.strategy, 0)
  IN [k \in 1..Len(at) |->
       [term |-> getCanonicalTerm(t, term),
        start |-> at[k], end |-> at[k] + Len(term),
        element |-> node,
        confidence |-> calculateConfidence(term, SubSeq(searchText, at[k] + 1,
                                                        at[k] + Len(term))),
        via |-> term]]

\* for (const term of this.terms) ...
RECURSIVE matchesOfTerms(_, _, _, _)
matchesOfTerms(t, searchText, terms, node) ==
  IF terms = <<>> THEN <<>>
  ELSE matchesOfTerm(t, searchText, Head(terms), node)
         \o matchesOfTerms(t, searchText, Tail(terms), node)

findTermsInText(t, text, node) ==
  matchesOfTerms(t, normalized(t, text), t.terms, node)

\* Array.prototype.sort((a, b) => a.start - b.start): stable
RECURSIVE sortByStart(_)
sortByStart(ms) ==
  IF ms = <<>> THEN <<>>
  ELSE LET k == CHOOSE i \in 1..Len(ms) :
                  \A j \in 1..Len(ms) :
                    \/ ms[i].start < ms[j].start
                    \/ ms[i].start = ms[j].start /\ i <= j
       IN <<ms[k]>> \o sortByStart(RemoveAt(ms, k))

\* the walk over the accepted text nodes of the element, in document order
RECURSIVE matchesOfNodes(_, _, _)
matchesOfNodes(t, nodes, n) ==
  IF n > Len(nodes) THEN <<>>
  ELSE findTermsInText(t, nodes[n], n) \o matchesOfNodes(t, nodes, n + 1)

findMatches(t, nodes) == sortByStart(matchesOfNodes(t, nodes, 1))

\* ---- the steps of a term matcher.  registered keeps the arguments of the addTerm
\* calls as they were given; text and matches are the argument and the result of the
\* step when it was a findMatches call
tmBegin(step) == [tm EXCEPT !.step = step, !.text = <<>>, !.matches = <<>>]

tmOnly ==
  UNCHANGED <<cards, detached, cardIdCounter, now, pending, maxOpenCards,
              linkFollowInNewCard, events, lastOp, closedLevel, ui, pe, hv>>

TmAddTerm(term, aliases) ==
  /\ tm.adds < MaxAdds
  /\ tm' = [addTerm(tmBegin("addTerm"), term, aliases) EXCEPT
              !.registered = Append(@, [term |-> term, aliases |-> aliases]),
              !.adds = @ + 1]
  /\ tmOnly

TmFindMatches(nodes) ==
  /\ tm.scans < MaxScans
  /\ tm' = [tmBegin("findMatches") EXCEPT !.text = nodes,
                                          !.matches = findMatches(tm, nodes),
                                          !.scans = @ + 1]
  /\ tmOnly

TmClear ==
  /\ tm.terms # <<>>
  /\ tm' = [tmBegin("clear") EXCEPT !.terms = <<>>, !.aliases = <<>>, !.registered = <<>>]
  /\ tmOnly

Strategies == {"word-boundary", "substring"}

TermInputs == TermStrings \cup {ExampleTerm}

AliasInputs == {<<>>} \cup {<<a>> : a \in TermStrings}

NodeInputs ==
  {<<text>> : text \in Strings(MaxTextLen) \cup {ExampleText}}
    \cup {<<a, b>> : a \in Strings(MaxSegLen), b \in Strings(MaxSegLen)}

InitMatch ==
  /\ InitEngine /\ linkFollowInNewCard /\ maxOpenCards = 1
  /\ ui = UiInit
  /\ pe = PtrInit
  /\ \E caseSensitive \in BOOLEAN, strategy \in Strategies :
       tm = TmInit(caseSensitive, strategy)
  /\ hv = HvInit

NextMatch ==
  \/ \E term \in TermInputs, aliases \in AliasInputs : TmAddTerm(term, aliases)
  \/ \E nodes \in NodeInputs : TmFindMatches(nodes)
  \/ TmClear

SpecMatch == InitMatch /\ [][NextMatch]_vars

\* ==================================================== hover triggers
\* Two kinds of trigger open cards after a dwell delay: the spans HoverEngine wraps
\* around the terms it finds (attachHoverListeners; one timer slot per term in
\* dwellTimers) and the HoverTerm components of the react package (one timerRef per
\* component).  Triggers 1 and 2 are two spans of the same term, 3 is a HoverTerm and
\* 4 a HoverTerm with disableDelay.  The browser delivers mouseenter and mouseleave of
\* an element in turns, and the pointer is over one trigger at a time.  Timer ids are
\* the numbers setTimeout returns: positive and never reused.
MaxHovers == 3         \* mouseenter events in one run

Spans == {1, 2}

HoverTerms == {3, 4}

Triggers == Spans \cup HoverTerms

termOf(tr) == IF tr = 3 THEN "t2" ELSE "t1"

disableDelay(tr) == tr = 4

\* window.setTimeout: the callback is pending under a new id
setTimeout(h, kind, tr) ==
  [h EXCEPT !.timers = @ \cup {[id |-> h.nextTimer, kind |-> kind, trigger |-> tr,
                                term |-> termOf(tr), hover |-> h.hovers]},
            !.nextTimer = @ + 1]

\* window.clearTimeout: a pending callback with this id is dropped
clearTimeout(h, id) == [h EXCEPT !.timers = {t \in @ : t.id # id}]

\* Map.prototype.set / delete on dwellTimers, and the same for the timerRef cells
slotSet(m, key, id) == [k \in DOMAIN m \cup {key} |-> IF k = key THEN id ELSE m[k]]

slotDelete(m, key) == [k \in DOMAIN m \ {key} |-> m[k]]

\* clearDwellTimer that forgets the slot but leaves the callback pending
clearDwellTimerForgets(h, term) == [h EXCEPT !.dwellTimers = slotDelete(@, term)]

clearDwellTimer(h, term) ==
  IF term \in DOMAIN h.dwellTimers
  THEN [clearTimeout(h, h.dwellTimers[term]) EXCEPT !.dwellTimers = slotDelete(@, term)]
  ELSE h

startDwellTimer(h, tr) ==
  LET h1 == clearDwellTimer(h, termOf(tr))
  IN [setTimeout(h1, "dwell", tr) EXCEPT !.dwellTimers = slotSet(@, termOf(tr), h1.nextTimer)]

\* HoverTerm: if (timerRef.current) { clearTimeout(timerRef.current); timerRef.current = null }
clearTimerRef(h, tr) ==
  IF tr \in DOMAIN h.timerRef
  THEN [clearTimeout(h, h.timerRef[tr]) EXCEPT !.timerRef = slotDelete(@, tr)]
  ELSE h

\* the timer id the trigger's code would cancel now, 0 when it holds none
heldTimer(h, tr) ==
  IF tr \in Spans
  THEN (IF termOf(tr) \in DOMAIN h.dwellTimers THEN h.dwellTimers[termOf(tr)] ELSE 0)
  ELSE (IF tr \in DOMAIN h.timerRef THEN h.timerRef[tr] ELSE 0)

\* the dwell timers of the hover that is going on over trigger tr
dwellPending(h, tr) == {t \in h.timers : t.kind = "dwell" /\ t.trigger = tr}

hvBegin(step) == [hv EXCEPT !.step = step, !.stale = FALSE]

hvRest == UNCHANGED <<ui, pe, tm>>

\* mouseenter on a trigger
MouseEnter(tr) ==
  /\ hv.over = 0 /\ hv.hovers < MaxHovers
  /\ LET h == [hvBegin("enter") EXCEPT !.over = tr, !.hovers = @ + 1]
     IN IF tr \in Spans
        THEN hv' = startDwellTimer(h, tr) /\ engineIdle
        ELSE IF disableDelay(tr)
        THEN /\ hv' = [h EXCEPT !.opened = @ \cup {h.hovers}]
             /\ OpenCard(termOf(tr), NoParent)
        ELSE /\ hv' = [setTimeout(h, "dwell", tr) EXCEPT
                         !.timerRef = slotSet(@, tr, h.nextTimer)]
             /\ engineIdle
  /\ hvRest

\* mouseleave on the trigger the pointer is over.  early notes the hovers the pointer
\* left while their dwell timer had not fired; stale that the code cancelled a timer
\* id which was no longer pending
MouseLeave(tr) ==
  /\ hv.over = tr
  /\ LET h == [hvBegin("leave") EXCEPT
                 !.over = 0,
                 !.early = IF dwellPending(hv, tr) # {} THEN @ \cup {hv.hovers} ELSE @,
                 !.stale = /\ heldTimer(hv, tr) # 0
                           /\ heldTimer(hv, tr) \notin {t.id : t \in hv.timers}]
     IN IF tr \in Spans
        THEN hv' = setTimeout(clearDwellTimer(h, termOf(tr)), "leave", tr)
        ELSE hv' = clearTimerRef(h, tr)
  /\ engineIdle
  /\ hvRest

\* the dwell delay of a pending timer has elapsed: its callback opens the card
DwellFires(t) ==
  /\ t \in hv.timers /\ t.kind = "dwell"
  /\ hv' = [hvBegin("dwell") EXCEPT !.timers = @ \ {t}, !.opened = @ \cup {t.hover}]
  /\ OpenCard(t.term, NoParent)
  /\ hvRest

isHoveringCard(term) == FALSE

\* the 100 ms timer of the span's mouseleave handler
LeaveTimerFires(t) ==
  /\ t \in hv.timers /\ t.kind = "leave"
  /\ hv' = [hvBegin("leaveTimer") EXCEPT !.timers = @ \ {t}]
  /\ LET unpinned == SelectSeq(MapValues(cards),
                               LAMBDA c : cards[c].term = t.term /\ ~cards[c].isPinned)
     IN IF hv.over # t.trigger /\ ~isHoveringCard(t.term) /\ unpinned # <<>>
        THEN CloseCard(Head(unpinned))
        ELSE engineIdle
  /\ hvRest

\* click on a trigger: the span pins or opens, the HoverTerm cancels its timer and opens
Click(tr) ==
  /\ hv.over = tr
  /\ IF tr \in Spans
     THEN hv' = hvBegin("click") /\ PinCard(termOf(tr))
     ELSE hv' = clearTimerRef(hvBegin("click"), tr) /\ OpenCard(termOf(tr), NoParent)
  /\ hvRest

InitHover == Init /\ linkFollowInNewCard /\ maxOpenCards = MaxCap

NextHover ==
  \/ \E tr \in Triggers : MouseEnter(tr)
  \/ \E tr \in Triggers : MouseLeave(tr)
  \/ \E t \in hv.timers : DwellFires(t)
  \/ \E t \in hv.timers : LeaveTimerFires(t)
  \/ \E tr \in Triggers : Click(tr)
  \/ \E i \in 1..MaxPending, outcome \in Outcomes :
       ResolveDone(i, outcome) /\ UNCHANGED <<ui, pe, tm, hv>>

SpecHover == InitHover /\ [][NextHover]_vars

\* ============================================================ properties
\* The parentId chain that starts at card p: p, its parent, its parent's parent, ...
\* as far as the links lead to cards of the collection cs.
RECURSIVE ChainFrom(_, _)
ChainFrom(cs, S) ==
  LET T == (S \cup {cs[x].parentId : x \in S \cap DOMAIN cs}) \ {NoParent}
  IN IF T = S THEN S ELSE ChainFrom(cs, T)

ParentChain(cs, p) == ChainFrom(cs, {p} \ {NoParent})

\* the cards of cs below card id
Descendants(cs, id) == {d \in DOMAIN cs : id \in ParentChain(cs, cs[d].parentId)}

OpenCount(cs) == Cardinality({c \in DOMAIN cs : cs[c].isPinned \/ cs[c].isLoading})

DoneOps == {"openCardDone", "followLinkDone"}

\* C1: right after an openCard call (direct, or through followLink or pinCard) the
\* number of cards exceeds maxOpenCards only if at the start of the call every open
\* card was on the parentId chain of the card being opened.
C1_CapExceededOnlyWhenAllAncestors ==
  [][ (lastOp'.opened # 0 /\ Cardinality(DOMAIN cards') > maxOpenCards)
        => DOMAIN cards \subseteq ParentChain(cards, lastOp'.parentId) ]_vars

\* C2: closeCard(id) on an open card removes id and its transitive descendants and
\* nothing else, emits one cardClose per removed id and nothing more, and emits a
\* card's event before the event of its parent.
C2_CloseRemovesSubtreeBottomUp ==
  [][ (lastOp'.op = "closeCard" /\ lastOp'.target \in DOMAIN cards) =>
        LET id == lastOp'.target
            gone == {id} \cup Descendants(cards, id)
            n == Len(events')
        IN /\ DOMAIN cards' = DOMAIN cards \ gone
           /\ \A c \in DOMAIN cards' : cards'[c] = cards[c]
           /\ n = Cardinality(gone)
           /\ \A i \in 1..n : events'[i].type = "cardClose" /\ events'[i].id \in gone
           /\ \A i, j \in 1..n : i # j => events'[i].id # events'[j].id
           /\ \A i, j \in 1..n :
                cards[events'[i].id].parentId = events'[j].id => i < j ]_vars

\* a closeCard call has just removed a card together with two descendants
C2_Witness ==
  /\ lastOp.op = "closeCard"
  /\ Len(events) = 3
  /\ \A i \in 1..3 : events[i].type = "cardClose"

\* the level of the card named p: its level in the collection, or the level it had
\* when it was closed
LevelOfCard(p) == IF p \in DOMAIN cards THEN cards[p].level ELSE closedLevel[p]

\* C3: for every card, level is 0 exactly when it has no parentId, and otherwise
\* level is the level of the card named by parentId plus 1, also when that card has
\* been closed before the card was opened.
C3_LevelIsParentLevelPlusOne ==
  \A id \in DOMAIN cards :
    LET c == cards[id]
    IN /\ c.level = 0 <=> c.parentId = NoParent
       /\ c.parentId # NoParent => c.level = LevelOfCard(c.parentId) + 1

\* C4: the cards form a forest: a parentId names a card of the collection, and the
\* parentId chain of every card ends at a level-0 card without coming back to the card.
C4_CardsFormForest ==
  \A id \in DOMAIN cards :
    LET chain == ParentChain(cards, cards[id].parentId)
    IN /\ chain \subseteq DOMAIN cards
       /\ id \notin chain
       /\ \E r \in chain \cup {id} : cards[r].parentId = NoParent /\ cards[r].level = 0

\* C5: an openCard call removes no card of the parentId chain of the card it opens.
C5_EvictionSparesAncestors ==
  [][ lastOp'.opened # 0 =>
        \A a \in ParentChain(cards, lastOp'.parentId) \cap DOMAIN cards :
          /\ a \in DOMAIN cards'
          /\ \A i \in EventsOf(events', "cardClose") : events'[i].id # a ]_vars

\* an openCard call under a parent that is open has just evicted a card
C5_Witness ==
  /\ lastOp.opened # 0
  /\ lastOp.parentId \in DOMAIN cards
  /\ EventsOf(events, "cardClose") # {}

\* C6: when openCard starts with the open-card count at or above the cap and a
\* non-ancestor card exists, the card it evicts is a non-ancestor with the smallest
\* openedAt, every other card closed is a descendant of it, and its cardClose comes
\* before the cardOpen of the new card; with cap 1, opening a root card while one card
\* is open leaves exactly the new card.
C6_EvictsOldestNonAncestorFirst ==
  [][ lastOp'.opened # 0 =>
        LET nonAnc == DOMAIN cards \ ParentChain(cards, lastOp'.parentId)
            closes == EventsOf(events', "cardClose")
        IN /\ (OpenCount(cards) >= maxOpenCards /\ nonAnc # {}) =>
                \E i \in closes :
                  LET v == events'[i].id
                  IN /\ v \in nonAnc
                     /\ \A d \in nonAnc : cards[v].openedAt <= cards[d].openedAt
                     /\ \A j \in closes \ {i} :
                          j < i /\ events'[j].id \in Descendants(cards, v)
                     /\ \A k \in EventsOf(events', "cardOpen") : i < k
           /\ (maxOpenCards = 1 /\ Cardinality(DOMAIN cards) = 1
                 /\ lastOp'.parentId = NoParent) =>
                DOMAIN cards' = {lastOp'.opened} ]_vars

\* an openCard call has just evicted a card while a later-opened non-ancestor stayed
C6_Witness ==
  /\ lastOp.opened # 0
  /\ EventsOf(events, "cardClose") # {}
  /\ \E c \in DOMAIN cards \ (ParentChain(cards, lastOp.parentId) \cup {lastOp.opened}) :
       cards[c].openedAt > 0

\* C7: an openCard call emits one cardOpen for the new card, with isLoading true,
\* before it queries a source; the call is suspended once; when its resolution ends
\* it emits one more cardOpen for that id, with isLoading false, and is over; a step
\* that only moves on to the next source emits no cardOpen.
C7_OpenEmitsLoadingThenLoaded ==
  [][ /\ lastOp'.opened # 0 =>
           /\ \E i \in 1..Len(events') :
                /\ {k \in EventsOf(events', "cardOpen") :
                      events'[k].id = lastOp'.opened} = {i}
                /\ events'[i].isLoading
                /\ \A q \in EventsOf(events', "query") : i < q
           /\ Cardinality({k \in 1..Len(pending') :
                             /\ pending'[k].kind = "openCard"
                             /\ pending'[k].card = lastOp'.opened}) = 1
      /\ lastOp'.op = "openCardDone" =>
           /\ \E i \in 1..Len(events') :
                /\ EventsOf(events', "cardOpen") = {i}
                /\ events'[i].id = lastOp'.target
                /\ ~events'[i].isLoading
           /\ \A k \in 1..Len(pending') :
                ~(pending'[k].kind = "openCard" /\ pending'[k].card = lastOp'.target)
      /\ lastOp'.op = "resolveNext" => EventsOf(events', "cardOpen") = {} ]_vars

\* the resolution started by an openCard call has just ended
C7_Witness ==
  /\ lastOp.op = "openCardDone"
  /\ EventsOf(events, "cardOpen") # {}

\* the first source of hist that answered with content, 0 when none did
FirstContent(hist) ==
  IF \E i \in 1..Len(hist) : hist[i] = "content"
  THEN CHOOSE i \in 1..Len(hist) :
         hist[i] = "content" /\ \A j \in 1..(i - 1) : hist[j] # "content"
  ELSE 0

\* C8: sources are queried in list order starting with the first; a source that
\* answers null or rejects makes the next one be queried; when the resolution ends
\* the content is the answer of the first source that gave content (null when none
\* did), exactly the sources up to that one were queried, and none is queried after.
C8_FirstAnsweringSourceWins ==
  [][ /\ lastOp'.op \in DoneOps =>
           LET p == pending[lastOp'.slot]
               hist == Append(p.outcomes, lastOp'.outcome)
               w == FirstContent(hist)
               got == IF w = 0 THEN Null ELSE <<w, p.term>>
           IN /\ Len(hist) = (IF w = 0 THEN NumSources ELSE w)
              /\ EventsOf(events', "query") = {}
              /\ \A i \in EventsOf(events', "cardOpen") : events'[i].content = got
              /\ p.card \in DOMAIN cards => cards'[p.card].content = got
      /\ lastOp'.op = "resolveNext" =>
           LET p == pending[lastOp'.slot]
           IN /\ lastOp'.outcome \in {"null", "reject"}
              /\ events' = <<EvQuery(Len(p.outcomes) + 2, p.term)>>
              /\ cards' = cards
      /\ lastOp'.op \in {"openCard", "followLink", "pinCard"} =>
           \A q \in EventsOf(events', "query") : events'[q].id = 1 ]_vars

\* a resolution has just ended with the content of the second source
C8_Witness ==
  /\ lastOp.op \in DoneOps
  /\ lastOp.outcome = "content"
  /\ \E i \in EventsOf(events, "cardOpen") :
       events[i].content # Null /\ events[i].content[1] = 2

\* C9: when the last source has answered and none gave content (null or a rejection),
\* the suspended openCard or followLink call ends by returning the card id, and the
\* card, if it is still open, stays in the collection with isLoading false and
\* content null.
C9_FailureLeavesCardOpenAndEmpty ==
  [][ (lastOp'.op \in DoneOps /\ lastOp'.outcome # "content") =>
        LET p == pending[lastOp'.slot]
        IN /\ events'[Len(events')] = EvReturn(p.card)
           /\ DOMAIN cards' = DOMAIN cards
           /\ p.card \in DOMAIN cards =>
                ~cards'[p.card].isLoading /\ cards'[p.card].content = Null ]_vars

\* every source failed for a card that is still open
C9_Witness ==
  /\ lastOp.op = "openCardDone"
  /\ lastOp.outcome = "reject"
  /\ lastOp.target \in DOMAIN cards

\* ---- the stack controller
HeldTimer(kind, card) == \E t \in ui.timers : t.kind = kind /\ t.card = card /\ t.held

\* a render whose effect found the top card idle, the pointer zone none and the grace
\* window over puts the top card in scheduled-close and arms the close timer, with
\* initialDelay unless hasCascaded is set
C10_IdleTopCardIsScheduled ==
  LET topCard == getTopCard(ui)
  IN /\ (/\ ui.step = "render" /\ topCard # 0 /\ ui.overZone = "none"
         /\ ~ui.graceActive /\ AnimOf(ui.cardAnimations, topCard) = "idle") =>
          /\ ui.armed # ""
          /\ ui.cardAnimationsNext[topCard] = "scheduled-close"
          /\ HeldTimer("close", topCard)
     /\ ui.armed # "" =>
          /\ ui.step = "render" /\ ui.overZone = "none" /\ ~ui.graceActive
          /\ ui.hasCascadedRef <=> ui.armed = "cascade"

\* the animation frame after the close timer puts the card in closing and arms the
\* fade timer; when that timer fires the card is removed through engine.closeCard
\* and hasCascaded is set
C10_ClosingThenRemoved ==
  /\ ui.step = "frame" =>
       \E t \in ui.timers :
         /\ t.kind = "closing" /\ t.held
         /\ ui.cardAnimationsNext[t.card] = "closing"
  /\ ui.step = "autoClose" =>
       /\ lastOp.op = "closeCard"
       /\ lastOp.target \notin DOMAIN cards
       /\ ui.hasCascadedRef
       /\ ~ui.closeTimerRef /\ ~ui.closingAnimationTimerRef

\* after an auto-close, a close scheduled while the pointer zone has stayed none
\* uses cascadeDelay
C10_NextCloseUsesCascadeDelay ==
  (ui.armed # "" /\ ui.calm) => ui.armed = "cascade"

\* C10: with the pointer zone none, the top card idle and the grace window over, the
\* controller puts the top card in scheduled-close with initialDelay, the card goes
\* to closing and, after the fade, is removed through engine.closeCard with
\* hasCascaded set; the next close scheduled while the pointer zone stays none uses
\* cascadeDelay instead of initialDelay.
C10_AutoCloseThenCascadeDelay ==
  /\ C10_IdleTopCardIsScheduled
  /\ C10_ClosingThenRemoved
  /\ C10_NextCloseUsesCascadeDelay

\* C11: once the controller has reacted to the pointer zone top-card or other-card
\* (the render after the zone change, also the render after an animation frame that
\* started the closing animation), no close timer and no closing-animation timer of
\* the top card is left, the top card is neither in scheduled-close nor in closing,
\* and hasCascaded is false.
C11_ReentryCancelsClose ==
  LET topCard == getTopCard(ui)
  IN (/\ ui.step = "render" /\ topCard # 0
      /\ ui.overZone \in {"top-card", "other-card"}) =>
       /\ \A t \in ui.timers : t.card = topCard => t.kind \notin {"close", "closing"}
       /\ AnimOf(ui.cardAnimationsNext, topCard) \notin {"scheduled-close", "closing"}
       /\ ~ui.hasCascadedRef

\* C12: every cardOpen event the controller handles starts the grace window, and
\* while the window is active no step puts a card in scheduled-close or arms a close
\* timer; a render during the window leaves no close timer held.
C12_NoCloseScheduledInGrace ==
  /\ EventsOf(events, "cardOpen") # {} => ui.graceActive
  /\ ui.graceActive => ui.armed = ""
  /\ (ui.graceActive /\ ui.step = "render" /\ getTopCard(ui) # 0) =>
       /\ ~ui.closeTimerRef
       /\ \A t \in ui.timers : t.kind = "close" => ~t.held

\* a render during the grace window found the pointer zone none and the top card
\* idle and scheduled nothing
C12_Witness ==
  /\ ui.step = "render" /\ ui.graceActive
  /\ ui.overZone = "none"
  /\ getTopCard(ui) # 0
  /\ AnimOf(ui.cardAnimations, getTopCard(ui)) = "idle"
  /\ AnimOf(ui.cardAnimationsNext, getTopCard(ui)) = "idle"

\* C13: a cardClose event names a card that is in the collection when the step
\* starts, that is gone when it ends and that was never closed before, and no step
\* emits two for one id; an id that has left the collection never comes back, since
\* every inserted id is new; closeCard on an id that is not in the collection emits
\* nothing and changes nothing.
C13_CardClosedAtMostOnce ==
  [][ /\ \A i \in EventsOf(events', "cardClose") :
           /\ events'[i].id \in DOMAIN cards
           /\ events'[i].id \notin DOMAIN cards'
           /\ events'[i].id \notin DOMAIN closedLevel
           /\ \A j \in EventsOf(events', "cardClose") :
                events'[j].id = events'[i].id => i = j
      /\ DOMAIN cards' \ DOMAIN cards \subseteq {cardIdCounter + 1}
      /\ cardIdCounter' >= cardIdCounter
      /\ DOMAIN cards' \cup DOMAIN closedLevel' \subseteq 1..cardIdCounter'
      /\ (lastOp'.op = "closeCard" /\ lastOp'.target \notin DOMAIN cards) =>
           /\ events' = <<>>
           /\ UNCHANGED <<cards, detached, cardIdCounter, now, pending, maxOpenCards,
                          linkFollowInNewCard, closedLevel>> ]_vars

\* closeCard has just been called with the id of a card that was closed earlier
C13_Witness ==
  /\ lastOp.op = "closeCard"
  /\ lastOp.target \in DOMAIN closedLevel
  /\ events = <<>>
  /\ cards # <<>>

\* C14: once stop() has returned, no step classifies the pointer position and no
\* listener is called.
C14_NothingRunsAfterStop ==
  pe.stopped => (~pe.checked /\ pe.calls = <<>>)

\* C15: after the provider is unmounted no timer callback of the controller runs
\* that writes a ref of the controller (the animation frame of the close timer, the
\* fade timer) or calls engine.closeCard (the fade timer, the immediate-close timer).
C15_NoTimerCallbackAfterUnmount ==
  ~ui.mounted => ui.step \notin {"frame", "autoClose", "closedNow"}

\* C16: at most one animation-frame callback of the pointer engine is pending.
C16_OneFrameRequestPending ==
  Cardinality(pe.frames) <= 1

\* a sample has arrived while a frame callback was pending, and one is pending
C16_Witness ==
  /\ pe.step = "sample" /\ pe.wasPending
  /\ Cardinality(pe.frames) = 1

\* C17: subscribe(listener) calls that listener once, with the current zone, and
\* nothing else; in every other step a listener is called at most once, and only
\* with a zone that differs from the zone it was told last.
C17_NotifiedOnZoneChangeOnly ==
  /\ pe.step = "subscribe" =>
       /\ Len(pe.calls) = 1
       /\ pe.calls[1].listener = pe.arg
       /\ pe.calls[1].zone = pe.overZone
  /\ pe.step # "subscribe" =>
       /\ \A i \in 1..Len(pe.calls) :
            /\ pe.calls[i].zone # pe.calls[i].prev
            /\ pe.calls[i].zone = pe.overZone
       /\ \A i, j \in 1..Len(pe.calls) :
            pe.calls[i].listener = pe.calls[j].listener => i = j

\* a frame callback has classified the position of a new sample to the zone the
\* listeners already know, and has called none of them
C17_Witness ==
  /\ pe.step = "frame" /\ pe.checked
  /\ pe.listeners # {}
  /\ pe.overZone # "none"
  /\ pe.calls = <<>>

\* the positions of the hit list whose element lies in a registered card, and in a
\* registered trigger
CardHits == {i \in 1..Len(pe.hits) : pe.hits[i].card # 0 /\ pe.hits[i].card \in pe.cards}

TriggerHits ==
  {i \in 1..Len(pe.hits) : pe.hits[i].trig # 0 /\ pe.hits[i].trig \in pe.triggers}

\* C18 as stated: for a position inside the viewport the zone is top-card when some
\* hit region is a registered card with the top card id, other-card when some hit
\* region is a registered card with another id, trigger when no hit region is a
\* registered card and some hit region is a registered trigger, none otherwise.
C18_ZoneFromAnyCardHit ==
  (pe.checked /\ pe.inside) =>
    pe.overZone =
      IF \E i \in CardHits : pe.hits[i].card = pe.topCardId THEN "top-card"
      ELSE IF CardHits # {} THEN "other-card"
      ELSE IF TriggerHits # {} THEN "trigger"
      ELSE "none"

\* C18, amended: the topmost hit region that is a registered card decides between
\* top-card (it has the top card id) and other-card (it has another id), also when a
\* registered trigger lies above it; the zone is trigger when no hit region is a
\* registered card and some hit region is a registered trigger, and none otherwise.
C18_ZoneFromTopmostCardHit ==
  (pe.checked /\ pe.inside) =>
    /\ \A i \in CardHits :
         (\A j \in CardHits : i <= j) =>
           pe.overZone = IF pe.hits[i].card = pe.topCardId THEN "top-card"
                         ELSE "other-card"
    /\ (CardHits = {} /\ TriggerHits # {}) => pe.overZone = "trigger"
    /\ (CardHits = {} /\ TriggerHits = {}) => pe.overZone = "none"

\* the position has been classified as other-card for a hit list in which another
\* registered card lies above the top card
C18_Witness ==
  /\ pe.checked /\ pe.inside
  /\ Len(pe.hits) = 2
  /\ CardHits = {1, 2}
  /\ pe.hits[1].card # pe.topCardId
  /\ pe.hits[2].card = pe.topCardId
  /\ pe.overZone = "other-card"

\* C19: a pinCard call for a term that has an unpinned card marks such a card pinned,
\* emits one cardPin event and opens nothing; a pinCard call for a term that has no
\* card, or only pinned cards, opens a new card for the term.
C19_PinCardPinsOrOpens ==
  [][ lastOp'.op = "pinCard" =>
        LET term == IF lastOp'.opened # 0 THEN cards'[lastOp'.opened].term
                    ELSE cards[lastOp'.target].term
            unpinned == {c \in DOMAIN cards : cards[c].term = term /\ ~cards[c].isPinned}
        IN IF unpinned # {}
           THEN /\ lastOp'.opened = 0
                /\ \E c \in unpinned :
                     /\ cards'[c].isPinned
                     /\ Len(events') = 1
                     /\ events'[1].type = "cardPin" /\ events'[1].id = c
           ELSE /\ lastOp'.opened # 0
                /\ lastOp'.opened \notin DOMAIN cards
                /\ cards'[lastOp'.opened].term = term ]_vars

\* C20: with linkFollowInNewCard set, followLink on an open card A opens a new card
\* B with parentId A and level A.level + 1 and leaves A in the collection as it was;
\* closeCard(A), while a card B with parentId A is open, emits cardClose for B and
\* then for A.
C20_FollowLinkOpensChild ==
  [][ /\ (lastOp'.op = "followLink" /\ linkFollowInNewCard
            /\ lastOp'.target \in DOMAIN cards) =>
           LET A == lastOp'.target
               B == lastOp'.opened
           IN /\ B # 0 /\ B \notin DOMAIN cards /\ B \in DOMAIN cards'
              /\ cards'[B].parentId = A
              /\ cards'[B].level = cards[A].level + 1
              /\ A \in DOMAIN cards' /\ cards'[A] = cards[A]
      /\ (lastOp'.op = "closeCard" /\ lastOp'.target \in DOMAIN cards) =>
           \A B \in DOMAIN cards :
             cards[B].parentId = lastOp'.target =>
               \E i, j \in 1..Len(events') :
                 /\ i < j
                 /\ events'[i] = EvClose(B)
                 /\ events'[j] = EvClose(lastOp'.target) ]_vars

\* followLink has just opened a card under a card that is itself a child
C20_Witness ==
  /\ lastOp.op = "followLink" /\ lastOp.opened # 0
  /\ linkFollowInNewCard
  /\ lastOp.opened \in DOMAIN cards
  /\ cards[lastOp.opened].parentId = lastOp.target
  /\ cards[lastOp.opened].level = 2

\* C21: with linkFollowInNewCard disabled, followLink on a card of the collection
\* (the call and its continuation when the content has resolved) leaves the set of
\* card ids and every other card as they were, changes nothing of the card but term,
\* content and isLoading, emits no cardClose and emits cardOpen for the same id.
C21_FollowLinkReplacesInPlace ==
  [][LET id == lastOp'.target
     IN (/\ lastOp'.op \in {"followLink", "followLinkDone"}
         /\ ~linkFollowInNewCard
         /\ id \in DOMAIN cards) =>
          /\ DOMAIN cards' = DOMAIN cards
          /\ \A c \in DOMAIN cards \ {id} : cards'[c] = cards[c]
          /\ cards'[id] = [cards[id] EXCEPT !.term = cards'[id].term,
                                            !.content = cards'[id].content,
                                            !.isLoading = cards'[id].isLoading]
          /\ {c \in DOMAIN cards : cards[c].parentId = id}
               = {c \in DOMAIN cards' : cards'[c].parentId = id}
          /\ EventsOf(events', "cardClose") = {}
          /\ \E i \in EventsOf(events', "cardOpen") : events'[i].id = id
          /\ \A i \in EventsOf(events', "cardOpen") : events'[i].id = id
          /\ lastOp'.op = "followLink" =>
               /\ cards'[id].term = events'[1].term
               /\ cards'[id].content = Null /\ cards'[id].isLoading]_vars

\* followLink has replaced the term of a card that has a parent and a child
C21_Witness ==
  /\ lastOp.op = "followLink" /\ ~linkFollowInNewCard
  /\ lastOp.target \in DOMAIN cards
  /\ cards[lastOp.target].parentId # NoParent
  /\ \E c \in DOMAIN cards : cards[c].parentId = lastOp.target
  /\ cards[lastOp.target].term # "t1"

\* C22: a pointer-down outside every card and term, or an Escape key press, takes
\* no card but the current top card out of the collection: the step that handles the
\* input removes no other card and arms the short fade timer for the top card only,
\* and when a fade timer of one card fires, that card and no other leaves.
C22_CloseNowRemovesTopCardOnly ==
  [][LET topCard == getTopCard(ui)
         fired == ui.timers \ ui'.timers
     IN /\ (ui'.step \in {"closeNow", "escape"} /\ topCard # 0) =>
             /\ DOMAIN cards \ {topCard} \subseteq DOMAIN cards'
             /\ \A t \in ui'.timers \ ui.timers : t.kind = "now" => t.ids = <<topCard>>
             /\ topCard \in DOMAIN cards' => NowTimer(<<topCard>>) \in ui'.timers
        /\ ui'.step = "closedNow" =>
             \A t \in fired : Len(t.ids) = 1 => DOMAIN cards \ {t.ids[1]} = DOMAIN cards']_vars

C24_NewCardStartsIdleUnderPointer ==
  [][LET id == lastOp'.opened
     IN /\ (/\ lastOp'.op = "openCard" /\ id # 0
             /\ EventsOf(events', "cardClose") = {}) =>
             AnimOf(ui'.cardAnimationsNext, id)
               = IF ui.overZone # "none" THEN "idle" ELSE "entering"
        /\ \A c \in DOMAIN ui'.cardAnimationsNext :
             ui'.cardAnimationsNext[c] = "entering" =>
               \E t \in ui'.timers : t.kind = "enter" /\ t.card = c
        /\ ui'.step = "enterTimer" =>
             \A t \in ui.timers \ ui'.timers :
               AnimOf(ui'.cardAnimationsNext, t.card) # "entering"]_vars

\* C25: under the default configuration (the provider's defaults and the defaults
\* of the configuration schema) a close armed with the cascade delay waits strictly
\* less than a close armed with the initial delay.
C25_CascadeDelayShorterByDefault ==
  \A config \in {ProviderDefaults, SchemaDefaults} :
    ui.armed = "cascade" => delayMs(config, ui.armed) < delayMs(config, "initial")

\* C26: when the controller has handled the cardClose event of a card, the
\* animation-state map has no entry for it, and no timer or animation-frame callback
\* creates an entry for an id that is not in the engine's collection.
C26_NoAnimationStateForRemovedCard ==
  [][/\ \A id \in closedBy(events') : id \notin DOMAIN ui'.cardAnimationsNext
     /\ ui'.step \in {"closeTimer", "frame", "autoClose", "enterTimer", "recheck"} =>
          \A id \in DOMAIN ui'.cardAnimationsNext \ DOMAIN ui.cardAnimationsNext :
            id \in DOMAIN cards']_vars

\* C27: the step that takes a pointer-leave sample classifies the position, leaves
\* the zone none and has told it to every subscriber.
C27_LeaveYieldsNoneAtOnce ==
  pe.step = "leave" =>
    /\ pe.checked
    /\ pe.overZone = "none"
    /\ \A l \in pe.listeners : pe.reported[l] = "none"

\* C28: when a register or unregister call returns, no animation-frame request is
\* pending, the position has been classified, and the zone (the one every subscriber
\* was told last) is the classification of the last pointer position against the
\* registries as they now are.
C28_RegistryChangeClassifiesAtOnce ==
  pe.step = "register" =>
    /\ pe.frameRequest = 0 /\ pe.frames = {}
    /\ pe.checked
    /\ pe.overZone = zoneOf(pe.inside, pe.hits, pe.cards, pe.triggers, pe.topCardId)
    /\ \A l \in pe.listeners : pe.reported[l] = pe.overZone

\* a registration found a frame request pending, cancelled it and told the
\* subscribers a new zone
C28_Witness ==
  /\ pe.step = "register" /\ pe.wasPending
  /\ pe.frames = {}
  /\ pe.calls # <<>>

\* the text a match spans in the text node it was found in
Occurrence(m) == SubSeq(tm.text[m.element], m.start + 1, m.end)

\* the match was found by searching for an alias, not for a term given as term
FoundThroughAlias(m) ==
  /\ \E i \in 1..Len(tm.registered) :
       \E a \in Range(tm.registered[i].aliases) : m.via = normalized(tm, a)
  /\ \A i \in 1..Len(tm.registered) : m.via # normalized(tm, tm.registered[i].term)

\* C29: every match findMatches reports has confidence 1.0 when the text it spans
\* equals a term as it was registered, 0.9 when it differs from the term in case
\* only, and 0.8 when it was found through an alias; with addTerm("API"),
\* word-boundary and case-insensitive matching, "Learn the API today" yields
\* exactly one match, spanning "API" (offsets 10 to 13), with confidence 1.0.
C29_ConfidenceByCaseAndAlias ==
  /\ \A k \in 1..Len(tm.matches) :
       LET m == tm.matches[k]
       IN IF FoundThroughAlias(m) THEN m.confidence = 8
          ELSE IF \E i \in 1..Len(tm.registered) : Occurrence(m) = tm.registered[i].term
               THEN m.confidence = 10
               ELSE m.confidence = 9
  /\ (/\ tm.step = "findMatches" /\ ~tm.caseSensitive /\ tm.strategy = "word-boundary"
      /\ tm.registered = <<[term |-> ExampleTerm, aliases |-> <<>>]>>
      /\ tm.text = <<ExampleText>>) =>
       /\ Len(tm.matches) = 1
       /\ tm.matches[1].start = 10 /\ tm.matches[1].end = 13
       /\ tm.matches[1].confidence = 10

\* C30: with caseSensitive true every match findMatches reports spans a text that
\* is, character for character, a term or an alias as it was registered.
C30_CaseSensitiveReportsExactCaseOnly ==
  tm.caseSensitive =>
    \A k \in 1..Len(tm.matches) :
      \E i \in 1..Len(tm.registered) :
        Occurrence(tm.matches[k])
          \in {tm.registered[i].term} \cup Range(tm.registered[i].aliases)

\* C31: findMatches returns the matches of an earlier text segment (in document
\* order) before every match of a later segment: in the result of a findMatches call
\* no match of a later text node stands before a match of an earlier text node,
\* whatever the start offsets of the two matches within their own nodes are.
C31_SegmentsInDocumentOrder ==
  tm.step = "findMatches" =>
    \A i \in 1..Len(tm.matches) : \A j \in 1..Len(tm.matches) :
      i < j => tm.matches[i].element <= tm.matches[j].element

\* C32: a hover the pointer leaves before the dwell delay has elapsed opens no card
\* (the pending timer is cancelled by the leave), at most one dwell timer is pending
\* at a time for the term of a span and for a HoverTerm, and a leave whose code
\* cancels a timer id that has already fired or been cancelled changes neither the
\* pending dwell timers nor the cards.
C32_EarlyLeaveOpensNoCard ==
  /\ [](/\ hv.early \cap hv.opened = {}
        /\ hv.over = 0 => \A t \in hv.timers : t.kind # "dwell"
        /\ \A a \in hv.timers : \A b \in hv.timers :
             a.kind = "dwell" /\ b.kind = "dwell"
               /\ (a.trigger = b.trigger \/ (a.trigger \in Spans /\ b.trigger \in Spans /\ a.term = b.term))
               => a = b)
  /\ [][hv' # hv /\ hv'.step = "leave" /\ hv'.stale =>
          /\ {t \in hv'.timers : t.kind = "dwell"} = {t \in hv.timers : t.kind = "dwell"}
          /\ cards' = cards]_vars

\* a hover was left early, and a leave cancelled a timer that had already fired
C32_Witness ==
  /\ hv.early # {} /\ hv.opened # {}
  /\ hv.step = "leave" /\ hv.stale

\* C33: once an auto-close has set hasCascaded, the flag stays set until the pointer
\* zone becomes top-card or other-card: a step that clears it (the handling of a
\* cardOpen event of a new card or of a content resolution, a render with the zone
\* trigger or with no card left) is a step after which the zone is top-card or
\* other-card, so that every close scheduled in between uses cascadeDelay.
C33_HasCascadedKeptUntilReentry ==
  [][ui.hasCascadedRef /\ ~ui'.hasCascadedRef =>
       ui'.overZone \in {"top-card", "other-card"}]_vars

\* C34: once the cardClose event of a card id has been emitted the id is gone for
\* good: a card that has left the engine's collection (closedLevel keeps the ids that
\* left) is never in the collection again, and it is in the provider's card list
\* neither as rendered nor as set for the next render, also after a content
\* resolution for the closed card has completed.
C34_ClosedCardNeverShownAgain ==
  /\ DOMAIN closedLevel \cap DOMAIN cards = {}
  /\ \A k \in 1..Len(ui.cardsNext) : ui.cardsNext[k].id \notin DOMAIN closedLevel

\* C35: in every controller state a card of the provider's list whose animation
\* state is scheduled-close or closing has a timer armed for that same card: the
\* close timer, the animation frame it requests, or the closing-animation timer
\* (for an immediate close, the timer that closes the card).
C35_ClosingCardHasTimer ==
  \A k \in 1..Len(ui.cardsNext) :
    LET id == ui.cardsNext[k].id
    IN AnimOf(ui.cardAnimationsNext, id) \in {"scheduled-close", "closing"} =>
         \E t \in ui.timers :
           \/ t.kind \in {"close", "frame", "closing"} /\ t.card = id
           \/ t.kind = "now" /\ id \in Range(t.ids)

\* the last step was the user's: a pointer move, an open, the close button
UserStep == ui.step \in {"pointer", "open", "button"}

\* the last step was a pointer move inside the grace window that turned the zone to
\* none while card id, a card of the engine's collection, was the top card
LeftInGrace(id) ==
  /\ ui.step = "pointer" /\ ~ui.fresh /\ ui.overZone = "none"
  /\ ui.graceActive /\ getTopCard(ui) = id /\ id \in DOMAIN cards

\* C36: if the pointer zone becomes none during the grace window of the top card and
\* then stays none with no further input, the card is eventually removed from the
\* provider's list (after its close was scheduled once the grace window had
\* elapsed): from such a state on, the card leaves the list, or the zone stops
\* being none, or the user acts again.
C36_LeftInGraceStillCloses ==
  \A id \in 1..MaxCtlCards :
    LeftInGrace(id) ~>
      \/ \A k \in 1..Len(ui.cardsNext) : ui.cardsNext[k].id # id
      \/ ui.overZone # "none"
      \/ UserStep /\ ~LeftInGrace(id)

\* C37: after a pointer sample has been taken by the running tracker, the position
\* it left is eventually classified: at some later time the reported zone is the
\* zone of the pointer position the tracker then holds (or the tracker has been
\* stopped), also when the sample was below the velocity threshold and no further
\* sample follows.
C37_LastSampleIsClassified ==
  (pe.step = "sample" /\ pe.attached) ~>
     \/ pe.stopped
     \/ pe.overZone = zoneOf(pe.inside, pe.hits, pe.cards, pe.triggers, pe.topCardId)

\* the most recently opened card among the cards of the highest level: ids are
\* generated in increasing order, so it is the one with the largest number
NewestOfTopLevel(list) ==
  IF list = <<>> THEN 0
  ELSE LET top == {k \in 1..Len(list) : \A j \in 1..Len(list) : list[j].level <= list[k].level}
       IN list[CHOOSE k \in top : \A j \in top : list[j].id <= list[k].id].id

\* C38: the card the controller (getTopCard, on the rendered list) and the tracker's
\* resolver (getTopCardId, on cardsRef) treat as top is the most recently opened card
\* among the cards with the highest level, whatever ids the engine has generated,
\* ids of ten and more included.
C38_TopIsNewestOfHighestLevel ==
  /\ getTopCard(ui) = NewestOfTopLevel(ui.cards)
  /\ getTopCardId(ui) = NewestOfTopLevel(ui.cardsRef)

\* C39: whenever no content resolution is pending for a card, the card is not
\* loading and its content is null or the content resolved for the term the card
\* has now, in whatever order the resolutions started by openCard and by in-place
\* followLink calls on the card have completed.
C39_ContentBelongsToCurrentTerm ==
  \A id \in DOMAIN cards :
    (\A i \in 1..Len(pending) : pending[i].card # id) =>
      /\ ~cards[id].isLoading
      /\ cards[id].content # Null =>
           \E src \in 1..NumSources : cards[id].content = contentOf(src, cards[id].term)

\* C40: with closeOnEscape false an Escape key press removes no card and arms no
\* removal, whether the window's key handler or the handler of a focused card takes
\* it, and with closeOnClickOutside false a press of the primary button outside all
\* cards and terms removes no card and arms no removal.
C40_DisabledCloseOptionsCloseNothing ==
  [][LET unaffected == /\ cards' = cards
                       /\ \A t \in ui'.timers \ ui.timers : t.kind # "now"
                       /\ ui'.cardAnimationsNext = ui.cardAnimationsNext
     IN /\ (ui'.step \in {"keydown", "escape"} /\ ~ui.closeOnEscape) => unaffected
        /\ (ui'.step = "pointerdown" /\ ~ui.closeOnClickOutside) => unaffected]_vars
====
